---- MODULE Spec2Model ----
(***************************************************************************)
(* PubSubX broker (src/server.py): the connection-and-topic engine of the  *)
(* Server class and its Client records, as a state machine.                *)
(*                                                                         *)
(* Byte strings (Python bytes) are sequences of byte values 0..255.  A     *)
(* Python str obtained by bytes.decode() is represented by its UTF-8       *)
(* bytes: decode() is then the UTF-8 validity test and encode() gives the  *)
(* bytes back.  Client objects live in a heap, clients, indexed by object  *)
(* identity; the server's dictionaries and topic sets hold identities.     *)
(*                                                                         *)
(* One step of the model is one turn of the for loop of                    *)
(* Server.server_loop, the handling of one event, or an iteration whose    *)
(* poll timed out.  When poll() returns (the clock has advanced by d) the  *)
(* first of its events is handled and the others wait in events; the       *)
(* following steps handle them, the clock standing, and the step after     *)
(* which none waits ends with the lost-client refresh of the iteration.    *)
(* The states between the handlers of one iteration are states of the      *)
(* model.                                                                  *)
(* The peers decide what recv() returns and in what condition they         *)
(* leave their sockets (open, closed, reset), on which recv(), send() and  *)
(* shutdown() return or raise.                                             *)
(***************************************************************************)
EXTENDS Integers, Sequences, FiniteSets, TLC

VARIABLES
    connections,      \* Server.__connections: filenos of the open connections
    pending,          \* Server.__pending: filenos that have not sent CONNECT yet
    requests,         \* Server.__requests: fileno -> bytes received without EOM
    connected,        \* Server.__connected: fileno -> client
    connected_names,  \* Server.__connected_names: name -> client
    temp_lost,        \* Server.__temp_lost: name -> client
    topics,           \* Server.__topics: topic -> set of clients
    last_refresh,     \* Server.__last_refresh
    clients,          \* the Client objects: identity -> fields
    epoll,            \* Server.__epoll: registered fileno -> event mask
    wire,             \* bytes each connection's socket has accepted from send()
    now,              \* the reading of time.time()
    crashed,          \* an exception has left server_loop
    events,           \* fileno -> event: what poll() returned and the for loop
                      \* of server_loop has not come to yet
    fed               \* fileno -> bytes of its script the peer has had read

vars == << connections, pending, requests, connected, connected_names, temp_lost,
           topics, last_refresh, clients, epoll, wire, now, crashed, events,
           fed >>

(***************************************************************************)
(* Program constants                                                       *)
(***************************************************************************)
EOM == << 10, 10, 120 >>                   \* b'\n\nx'
BUFFER_SIZE == 1024
MAX_REQUEST_SIZE == 10 * BUFFER_SIZE
MAX_STREAM_SIZE == 10 * 1024
LOST_TIMEOUT == 60
MAX_NAME_LEN == 64                          \* of the repository's client

\* clock readings per second: now, lost_time and last_refresh count them
Res == 2

SP == << 32 >>                              \* ' '
CONNECT == << 67, 79, 78, 78, 69, 67, 84 >>
DISCONNECT == << 68, 73, 83, 67, 79, 78, 78, 69, 67, 84 >>
PUBLISH == << 80, 85, 66, 76, 73, 83, 72 >>
SUBSCRIBE == << 83, 85, 66, 83, 67, 82, 73, 66, 69 >>
UNSUBSCRIBE == << 85, 78, 83, 85, 66, 83, 67, 82, 73, 66, 69 >>
\* b'OK: Conn accepted'
MSG_OK == << 79, 75, 58, 32, 67, 111, 110, 110, 32, 97, 99, 99, 101, 112, 116,
             101, 100 >>
\* b'ERROR: Name already taken'
MSG_TAKEN == << 69, 82, 82, 79, 82, 58, 32, 78, 97, 109, 101, 32, 97, 108, 114,
                101, 97, 100, 121, 32, 116, 97, 107, 101, 110 >>
\* "RESTORED "
MSG_RESTORED == << 82, 69, 83, 84, 79, 82, 69, 68, 32 >>

EPOLLIN == {"IN"}
EPOLLINOUT == {"IN", "OUT"}                 \* select.EPOLLIN | select.EPOLLOUT
EPOLLOUT == {"OUT"}

(***************************************************************************)
(* Bytes and str helpers                                                   *)
(***************************************************************************)
Min(S) == CHOOSE x \in S : \A y \in S : x <= y

Drop(f, k) == [x \in DOMAIN f \ {k} |-> f[x]]

\* bytes.find(sep, from): the least index >= from where sep occurs, 0 if none
Find(s, sep, from) ==
    LET at == {i \in from..(Len(s) - Len(sep) + 1) :
                  SubSeq(s, i, i + Len(sep) - 1) = sep}
    IN  IF at = {} THEN 0 ELSE Min(at)

\* sep in s
Contains(s, sep) == Find(s, sep, 1) # 0

\* s.endswith(suf)
EndsWith(s, suf) ==
    /\ Len(s) >= Len(suf)
    /\ SubSeq(s, Len(s) - Len(suf) + 1, Len(s)) = suf

RECURSIVE SplitFrom(_, _, _)
SplitFrom(s, sep, from) ==
    LET i == Find(s, sep, from)
    IN  IF i = 0
        THEN << SubSeq(s, from, Len(s)) >>
        ELSE << SubSeq(s, from, i - 1) >> \o SplitFrom(s, sep, i + Len(sep))

\* s.split(sep): the pieces between the occurrences of sep, left to right
Split(s, sep) == SplitFrom(s, sep, 1)

RECURSIVE Join(_, _)
\* sep.join(list)
Join(sep, list) ==
    IF list = << >> THEN << >>
    ELSE IF Len(list) = 1 THEN list[1]
    ELSE list[1] \o sep \o Join(sep, Tail(list))

IsCont(b) == b >= 128 /\ b <= 191

\* the length of the UTF-8 sequence a lead byte opens, 0 for a byte that opens none
LeadLen(b) ==
    IF b <= 127 THEN 1
    ELSE IF b >= 194 /\ b <= 223 THEN 2
    ELSE IF b >= 224 /\ b <= 239 THEN 3
    ELSE IF b >= 240 /\ b <= 244 THEN 4
    ELSE 0

\* the second byte of a sequence is in the range its lead byte allows
SecondOk(lead, b) ==
    IF lead = 224 THEN b >= 160 /\ b <= 191
    ELSE IF lead = 237 THEN b >= 128 /\ b <= 159
    ELSE IF lead = 240 THEN b >= 144 /\ b <= 191
    ELSE IF lead = 244 THEN b >= 128 /\ b <= 143
    ELSE IsCont(b)

\* bytes.decode() succeeds: s is well-formed UTF-8
Decodable(s) ==
    \A i \in 1..Len(s) :
        IF s[i] <= 127 THEN TRUE
        ELSE IF IsCont(s[i])
        THEN \E k \in 1..3 :
                /\ i - k >= 1
                /\ LeadLen(s[i - k]) > k
                /\ \A m \in 1..(k - 1) : IsCont(s[i - m])
        ELSE /\ LeadLen(s[i]) # 0
             /\ i + LeadLen(s[i]) - 1 <= Len(s)
             /\ \A m \in 1..(LeadLen(s[i]) - 1) :
                    IF m = 1 THEN SecondOk(s[i], s[i + 1]) ELSE IsCont(s[i + m])

(***************************************************************************)
(* Client class                                                            *)
(***************************************************************************)
\* Client.__init__
NewClient(name, fileno) ==
    [name |-> name, fileno |-> fileno, connected |-> TRUE, lost_time |-> 0,
     message_stream |-> << >>, topics |-> {}]

\* Client.subscribe: the client afterwards; the call returns TRUE iff it changed
Subscribe(client, topic) ==
    IF topic \notin client.topics
    THEN [client EXCEPT !.topics = @ \cup {topic}]
    ELSE client

\* Client.unsubscribe: the client afterwards; the call returns TRUE iff it changed
Unsubscribe(client, topic) ==
    IF topic \in client.topics
    THEN [client EXCEPT !.topics = @ \ {topic}]
    ELSE client

\* add_message without the test of the stream size: BoundedOutbound tells it
\* from AddMessage
AddMessageUnbounded(client, message) ==
    [client EXCEPT !.message_stream = @ \o message]

\* add_message that puts the message in front of the stream: FifoDelivery
\* tells it from AddMessage
AddMessageInFront(client, message) ==
    IF Len(client.message_stream) + Len(message) < MAX_STREAM_SIZE
    THEN [client EXCEPT !.message_stream = message \o @]
    ELSE client

\* Client.add_message: the client afterwards; the call returns the length of
\* its message_stream
AddMessage(client, message) ==
    IF Len(client.message_stream) + Len(message) < MAX_STREAM_SIZE
    THEN [client EXCEPT !.message_stream = @ \o message]
    ELSE client

\* Client.message_stream_size
MessageStreamSize(client) == Len(client.message_stream)

\* Client.get_message_chunk: the chunk, the remaining size and the client afterwards
GetMessageChunk(client, max_chunk_size) ==
    LET stream_size == MessageStreamSize(client)
        remove == IF stream_size > max_chunk_size THEN max_chunk_size
                  ELSE stream_size
    IN  [msg_chunk |-> SubSeq(client.message_stream, 1, remove),
         remaining |-> stream_size - remove,
         client |-> [client EXCEPT
                        !.message_stream = SubSeq(@, remove + 1, stream_size)]]

(***************************************************************************)
(* Server: the state as one record, so that a handler is a function of it  *)
(***************************************************************************)
State ==
    [connections |-> connections, pending |-> pending, requests |-> requests,
     connected |-> connected, connected_names |-> connected_names,
     temp_lost |-> temp_lost, topics |-> topics, last_refresh |-> last_refresh,
     clients |-> clients, epoll |-> epoll, wire |-> wire, now |-> now,
     crashed |-> crashed, events |-> events, sock |-> << >>]

\* an exception (KeyError, AssertionError, OSError, ...) propagates out of
\* server_loop
Raise(s) == [s EXCEPT !.crashed = TRUE]

\* the condition of the socket of a connection, which its peer decides.  The
\* field sock of a state names it for the descriptor of the event at hand:
\*   "open"    the peer is there;
\*   "closed"  the peer has closed the connection after reading all it was
\*             sent: recv() returns what the peer wrote and then b'', the
\*             next send() is taken and answered with a reset;
\*   "broken"  the peer had closed and a send() has been answered with a
\*             reset: recv() as before, send() raises BrokenPipeError and
\*             shutdown() raises OSError(ENOTCONN);
\*   "reset"   the peer has reset the connection (it closed with bytes it
\*             had not read, or aborted): recv() returns what the peer wrote
\*             and then raises ConnectionResetError, send() and shutdown()
\*             raise.
Condition(s, fileno) ==
    IF fileno \in DOMAIN s.sock THEN s.sock[fileno] ELSE "open"

\* the state in which the peer of a descriptor has left its socket so
Peer(s, fileno, cond) == [s EXCEPT !.sock = (fileno :> cond)]

\* the conditions in which recv() can come to return request_chunk, or to
\* raise in its place: a socket whose peer is there has no end of stream to
\* report, and a broken socket differs from a reset one at the end of the
\* stream only
Conditions(request_chunk) ==
    IF request_chunk = << >> THEN {"closed", "broken", "reset"}
    ELSE {"open", "closed", "reset"}

\* the Client objects some dictionary or topic set still refers to
Referenced(s) ==
    {s.connected[f] : f \in DOMAIN s.connected}
        \cup {s.connected_names[n] : n \in DOMAIN s.connected_names}
        \cup {s.temp_lost[n] : n \in DOMAIN s.temp_lost}
        \cup UNION {s.topics[t] : t \in DOMAIN s.topics}

\* an unreferenced Client object is freed
Collect(s) == [s EXCEPT !.clients = [c \in DOMAIN @ \cap Referenced(s) |-> @[c]]]

\* self.__connections[fileno].send(data): the socket takes all of data, or
\* raises when its connection has been reset
SocketSend(s, fileno, data) ==
    IF s.crashed THEN s
    ELSE IF fileno \notin s.connections THEN Raise(s)
    ELSE IF Condition(s, fileno) \in {"broken", "reset"} THEN Raise(s)
    ELSE [s EXCEPT !.wire[fileno] = @ \o data,
                   !.sock = IF Condition(s, fileno) = "closed"
                            THEN (fileno :> "broken") ELSE @]

\* epoll.modify(fileno, mask)
EpollModify(s, fileno, mask) ==
    IF s.crashed THEN s
    ELSE IF fileno \notin DOMAIN s.epoll THEN Raise(s)
    ELSE [s EXCEPT !.epoll[fileno] = mask]

\* Server.__connection_register; accept() returns the lowest free descriptor
ConnectionRegister(s, fileno) ==
    [s EXCEPT !.epoll = (fileno :> EPOLLIN) @@ @,
              !.connections = @ \cup {fileno},
              !.pending = @ \cup {fileno},
              !.requests = (fileno :> << >>) @@ @,
              !.wire = (fileno :> << >>) @@ @]

\* Server.__connection_remove: shutdown() raises on a socket that is no longer
\* connected, the descriptor unregistered and still in the dictionaries
ConnectionRemove(s, fileno) ==
    IF s.crashed THEN s
    ELSE IF fileno \notin DOMAIN s.epoll THEN Raise(s)
    ELSE IF fileno \notin s.connections
    THEN Raise([s EXCEPT !.epoll = Drop(@, fileno)])
    ELSE IF Condition(s, fileno) \in {"broken", "reset"}
    THEN Raise([s EXCEPT !.epoll = Drop(@, fileno)])
    ELSE [s EXCEPT !.epoll = Drop(@, fileno),
                   !.connections = @ \ {fileno},
                   !.requests = Drop(@, fileno),
                   !.pending = @ \ {fileno}]

\* __client_remove that leaves the key of a topic it has emptied:
\* NoEmptyTopicSets tells it from ClientRemove
ClientRemoveKeepKeys(s, c) ==
    LET client == s.clients[c]
        s1 == IF client.connected
              THEN [s EXCEPT !.connected = Drop(@, client.fileno),
                             !.connected_names = Drop(@, client.name)]
              ELSE [s EXCEPT !.temp_lost = Drop(@, client.name)]
        s2 == [s1 EXCEPT !.topics = [t \in DOMAIN @ |->
                                        IF t \in client.topics THEN @[t] \ {c}
                                        ELSE @[t]]]
        s3 == IF client.connected THEN ConnectionRemove(s2, client.fileno)
              ELSE s2
    IN  IF s.crashed THEN s ELSE Collect(s3)

\* Server.__client_remove
ClientRemove(s, c) ==
    LET client == s.clients[c]
        inDicts == IF client.connected
                   THEN /\ client.fileno \in DOMAIN s.connected
                        /\ client.name \in DOMAIN s.connected_names
                   ELSE client.name \in DOMAIN s.temp_lost
        inTopics == \A t \in client.topics :
                        t \in DOMAIN s.topics /\ c \in s.topics[t]
        s1 == IF client.connected
              THEN [s EXCEPT !.connected = Drop(@, client.fileno),
                             !.connected_names = Drop(@, client.name)]
              ELSE [s EXCEPT !.temp_lost = Drop(@, client.name)]
        left == [t \in DOMAIN s.topics |->
                    IF t \in client.topics THEN s.topics[t] \ {c}
                    ELSE s.topics[t]]
        s2 == [s1 EXCEPT !.topics = [t \in {u \in DOMAIN left : left[u] # {}}
                                        |-> left[t]]]
        s3 == IF client.connected THEN ConnectionRemove(s2, client.fileno)
              ELSE s2
    IN  IF s.crashed THEN s
        ELSE IF ~inDicts THEN Raise(s)
        ELSE IF ~inTopics THEN Raise(s1)
        ELSE Collect(s3)

\* " ".join(client.topics): the topics in the order the set iterates them, which
\* ord (topic -> rank) stands for
RECURSIVE JoinTopics(_, _)
JoinTopics(ts, ord) ==
    IF ts = {} THEN << >>
    ELSE IF Cardinality(ts) = 1 THEN CHOOSE x \in ts : TRUE
    ELSE LET t == CHOOSE x \in ts : \A y \in ts : ord[x] <= ord[y]
         IN  t \o SP \o JoinTopics(ts \ {t}, ord)

\* Server.__client_restore
ClientRestore(s, fileno, client_name, ord) ==
    LET c == s.temp_lost[client_name]
        client == s.clients[c]
        msg1 == MSG_RESTORED \o client_name \o EOM
        msg2 == JoinTopics(client.topics, ord) \o EOM
        s1 == SocketSend(s, fileno, msg1 \o msg2)
        s2 == [s1 EXCEPT !.pending = @ \ {fileno},
                         !.temp_lost = Drop(@, client_name),
                         !.connected = (fileno :> c) @@ @,
                         !.connected_names = (client_name :> c) @@ @,
                         !.clients[c].fileno = fileno,
                         !.clients[c].connected = TRUE]
    IN  IF s.crashed THEN s
        ELSE IF s1.crashed THEN s1
        ELSE IF MessageStreamSize(client) # 0
        THEN EpollModify(s2, fileno, EPOLLINOUT)
        ELSE s2

\* the identity of a new Client object: the name it is created with and a serial
\* number that no live object of that name has
NewIdentity(s, client_name) ==
    << client_name,
       Min({k \in 1..(Cardinality(DOMAIN s.clients) + 1) :
               << client_name, k >> \notin DOMAIN s.clients}) >>

\* __client_add that leaves the connection in the pending table:
\* ConnectionPartition tells it from ClientAdd
ClientAddStaysPending(s, fileno, client_name) ==
    LET c == NewIdentity(s, client_name)
        s1 == SocketSend(s, fileno, MSG_OK \o EOM)
    IN  IF s.crashed THEN s
        ELSE IF s1.crashed THEN s1
        ELSE [s1 EXCEPT !.clients = (c :> NewClient(client_name, fileno)) @@ @,
                        !.connected = (fileno :> c) @@ @,
                        !.connected_names = (client_name :> c) @@ @]

\* Server.__client_add
ClientAdd(s, fileno, client_name) ==
    LET c == NewIdentity(s, client_name)
        s1 == SocketSend(s, fileno, MSG_OK \o EOM)
    IN  IF s.crashed THEN s
        ELSE IF s1.crashed THEN s1
        ELSE [s1 EXCEPT !.clients = (c :> NewClient(client_name, fileno)) @@ @,
                        !.connected = (fileno :> c) @@ @,
                        !.connected_names = (client_name :> c) @@ @,
                        !.pending = @ \ {fileno}]

\* __client_lost that leaves the descriptor of the closed connection in the
\* record of the client: SubstateConsistency tells it from ClientLost
ClientLostKeepsHandle(s, fileno) ==
    LET c == s.connected[fileno]
        client == s.clients[c]
        s1 == [s EXCEPT !.connected = Drop(@, fileno),
                        !.connected_names = Drop(@, client.name),
                        !.temp_lost = (client.name :> c) @@ @,
                        !.clients[c].connected = FALSE,
                        !.clients[c].lost_time = s.now]
    IN  IF s.crashed THEN s
        ELSE IF client.name \notin DOMAIN s.connected_names THEN Raise(s)
        ELSE ConnectionRemove(s1, fileno)

\* Server.__client_lost
ClientLost(s, fileno) ==
    LET c == s.connected[fileno]
        client == s.clients[c]
        s1 == [s EXCEPT !.connected = Drop(@, fileno),
                        !.connected_names = Drop(@, client.name),
                        !.temp_lost = (client.name :> c) @@ @,
                        !.clients[c].fileno = 0,
                        !.clients[c].connected = FALSE,
                        !.clients[c].lost_time = s.now]
    IN  IF s.crashed THEN s
        ELSE IF client.name \notin DOMAIN s.connected_names THEN Raise(s)
        ELSE ConnectionRemove(s1, fileno)

RECURSIVE RemoveAll(_, _)
\* the loop "for client in remove_list: self.__client_remove(client)"
RemoveAll(s, remove_list) ==
    IF remove_list = {} THEN s
    ELSE LET c == CHOOSE x \in remove_list : TRUE
         IN  RemoveAll(ClientRemove(s, c), remove_list \ {c})

\* __clients_remove_dead that takes a client lost for exactly LOST_TIMEOUT for
\* dead: SweepExactness tells it from ClientsRemoveDead
ClientsRemoveDeadInclusive(s, at) ==
    LET remove_list == {s.temp_lost[n] : n \in
                           {m \in DOMAIN s.temp_lost :
                               (at - s.clients[s.temp_lost[m]].lost_time)
                                   >= LOST_TIMEOUT * Res}}
    IN  RemoveAll(s, remove_list)

\* Server.__clients_remove_dead
ClientsRemoveDead(s, at) ==
    LET remove_list == {s.temp_lost[n] : n \in
                           {m \in DOMAIN s.temp_lost :
                               (at - s.clients[s.temp_lost[m]].lost_time)
                                   > LOST_TIMEOUT * Res}}
    IN  RemoveAll(s, remove_list)

(***************************************************************************)
(* Server: processing of commands                                          *)
(***************************************************************************)
\* __process_connect without the test of the connected names: NameUniqueness
\* tells it from ProcessConnect
ProcessConnectNoTaken(s, fileno, client_name, ord) ==
    IF s.crashed THEN s
    ELSE IF client_name \in DOMAIN s.temp_lost
    THEN ClientRestore(s, fileno, client_name, ord)
    ELSE ClientAdd(s, fileno, client_name)

\* Server.__process_connect
ProcessConnect(s, fileno, client_name, ord) ==
    IF s.crashed THEN s
    ELSE IF client_name = << >> THEN Raise(s)
    ELSE IF client_name \in DOMAIN s.connected_names
    THEN ConnectionRemove(SocketSend(s, fileno, MSG_TAKEN \o EOM), fileno)
    ELSE IF client_name \in DOMAIN s.temp_lost
    THEN ClientRestore(s, fileno, client_name, ord)
    ELSE ClientAdd(s, fileno, client_name)

\* Server.__process_disconect
ProcessDisconnect(s, fileno) ==
    IF s.crashed THEN s
    ELSE IF fileno \notin DOMAIN s.connected THEN Raise(s)
    ELSE ClientRemove(s, s.connected[fileno])

\* the filenos __process_publish puts into the output pool: the clients whose
\* add_message returned len(message) and whose fileno is a connected one
Armed(s, topic, message) ==
    {s.clients[c].fileno : c \in
        {x \in s.topics[topic] :
            /\ MessageStreamSize(AddMessage(s.clients[x], message)) = Len(message)
            /\ s.clients[x].fileno \in DOMAIN s.connected}}

\* __process_publish that skips the lost clients of the topic:
\* FanOutWithinCapacity tells it from ProcessPublish
ProcessPublishConnected(s, topic, data) ==
    IF s.crashed THEN s
    ELSE IF topic \in DOMAIN s.topics
    THEN LET message == topic \o SP \o data \o EOM
         IN  [s EXCEPT
                !.clients = [c \in DOMAIN @ |->
                               IF c \in s.topics[topic] /\ @[c].connected
                               THEN AddMessage(@[c], message)
                               ELSE @[c]],
                !.epoll = [f \in DOMAIN @ |->
                               IF f \in Armed(s, topic, message) THEN EPOLLINOUT
                               ELSE @[f]]]
    ELSE s

\* __process_publish that queues the message to every client once the topic
\* has a subscriber: SubscribersOnly tells it from ProcessPublish
ProcessPublishBroadcast(s, topic, data) ==
    IF s.crashed THEN s
    ELSE IF topic = << >> THEN Raise(s)
    ELSE IF topic \in DOMAIN s.topics
    THEN LET message == topic \o SP \o data \o EOM
             armed == Armed(s, topic, message)
         IN  IF \E f \in armed : f \notin DOMAIN s.epoll THEN Raise(s)
             ELSE [s EXCEPT
                     !.clients = [c \in DOMAIN @ |-> AddMessage(@[c], message)],
                     !.epoll = [f \in DOMAIN @ |->
                                    IF f \in armed THEN EPOLLINOUT ELSE @[f]]]
    ELSE s

\* Server.__process_publish
ProcessPublish(s, topic, data) ==
    IF s.crashed THEN s
    ELSE IF topic = << >> THEN Raise(s)
    ELSE IF topic \in DOMAIN s.topics
    THEN LET message == topic \o SP \o data \o EOM
             armed == Armed(s, topic, message)
         IN  IF \E f \in armed : f \notin DOMAIN s.epoll THEN Raise(s)
             ELSE [s EXCEPT
                     !.clients = [c \in DOMAIN @ |->
                                    IF c \in s.topics[topic]
                                    THEN AddMessage(@[c], message)
                                    ELSE @[c]],
                     !.epoll = [f \in DOMAIN @ |->
                                    IF f \in armed THEN EPOLLINOUT ELSE @[f]]]
    ELSE s

\* Server.__process_subscribe
ProcessSubscribe(s, fileno, topic) ==
    IF s.crashed THEN s
    ELSE IF topic = << >> THEN Raise(s)
    ELSE IF fileno \notin DOMAIN s.connected THEN Raise(s)
    ELSE LET c == s.connected[fileno]
         IN  IF Subscribe(s.clients[c], topic) # s.clients[c]
             THEN [s EXCEPT
                     !.clients[c] = Subscribe(@, topic),
                     !.topics = IF topic \notin DOMAIN @
                                THEN (topic :> {c}) @@ @
                                ELSE [@ EXCEPT ![topic] = @ \cup {c}]]
             ELSE s

\* __process_unsubscribe that leaves the topic index as it is:
\* TopicIndexConsistency tells it from ProcessUnsubscribe
ProcessUnsubscribeKeepIndex(s, fileno, topic) ==
    IF s.crashed THEN s
    ELSE IF fileno \notin DOMAIN s.connected THEN Raise(s)
    ELSE [s EXCEPT !.clients[s.connected[fileno]] = Unsubscribe(@, topic)]

\* __process_unsubscribe that removes the topic without looking whether the
\* client holds it (set.remove raises KeyError): Idempotence tells it from
\* ProcessUnsubscribe
ProcessUnsubscribeUnchecked(s, fileno, topic) ==
    IF s.crashed THEN s
    ELSE IF fileno \notin DOMAIN s.connected THEN Raise(s)
    ELSE LET c == s.connected[fileno]
             s1 == [s EXCEPT !.clients[c].topics = @ \ {topic}]
         IN  IF topic \notin s.clients[c].topics THEN Raise(s)
             ELSE IF s.topics[topic] \ {c} = {}
             THEN [s1 EXCEPT !.topics = Drop(@, topic)]
             ELSE [s1 EXCEPT !.topics[topic] = @ \ {c}]

\* Server.__process_unsubscribe
ProcessUnsubscribe(s, fileno, topic) ==
    IF s.crashed THEN s
    ELSE IF topic = << >> THEN Raise(s)
    ELSE IF fileno \notin DOMAIN s.connected THEN Raise(s)
    ELSE LET c == s.connected[fileno]
             s1 == [s EXCEPT !.clients[c] = Unsubscribe(@, topic)]
         IN  IF Unsubscribe(s.clients[c], topic) # s.clients[c]
             THEN IF topic \notin DOMAIN s.topics \/ c \notin s.topics[topic]
                  THEN Raise(s1)
                  ELSE IF s.topics[topic] \ {c} = {}
                  THEN [s1 EXCEPT !.topics = Drop(@, topic)]
                  ELSE [s1 EXCEPT !.topics[topic] = @ \ {c}]
             ELSE s

\* __process_command that takes CONNECT from a bound connection too:
\* ViolationsIgnored tells it from ProcessCommand
ProcessCommandConnectAnywhere(s, fileno, command, arg1, data, ord) ==
    IF s.crashed THEN s
    ELSE IF command = CONNECT /\ arg1 # << >>
    THEN ProcessConnect(s, fileno, arg1, ord)
    ELSE IF fileno \in s.pending THEN ConnectionRemove(s, fileno)
    ELSE IF command = DISCONNECT THEN ProcessDisconnect(s, fileno)
    ELSE IF command = PUBLISH /\ arg1 # << >> THEN ProcessPublish(s, arg1, data)
    ELSE IF command = SUBSCRIBE /\ arg1 # << >>
    THEN ProcessSubscribe(s, fileno, arg1)
    ELSE IF command = UNSUBSCRIBE /\ arg1 # << >>
    THEN ProcessUnsubscribe(s, fileno, arg1)
    ELSE s

\* Server.__process_command
ProcessCommand(s, fileno, command, arg1, data, ord) ==
    IF s.crashed THEN s
    ELSE IF fileno \in s.pending
    THEN IF command = CONNECT /\ arg1 # << >>
         THEN ProcessConnect(s, fileno, arg1, ord)
         ELSE ConnectionRemove(s, fileno)
    ELSE IF command = DISCONNECT THEN ProcessDisconnect(s, fileno)
    ELSE IF command = PUBLISH /\ arg1 # << >> THEN ProcessPublish(s, arg1, data)
    ELSE IF command = SUBSCRIBE /\ arg1 # << >>
    THEN ProcessSubscribe(s, fileno, arg1)
    ELSE IF command = UNSUBSCRIBE /\ arg1 # << >>
    THEN ProcessUnsubscribe(s, fileno, arg1)
    ELSE s

(***************************************************************************)
(* Server: I/O functions                                                   *)
(***************************************************************************)
\* a parse that takes the word after arg1 for the data: PayloadIsRemainder
\* tells it from ParseMessage
ParseMessageOneWord(msg) ==
    LET msg_list == Split(msg, SP)
    IN  [command |-> msg_list[1],
         arg1 |-> IF Len(msg_list) >= 2 THEN msg_list[2] ELSE << >>,
         data |-> IF Len(msg_list) >= 3 THEN msg_list[3] ELSE << >>]

\* the parse of a message in __process_message: command, arg1 and data
ParseMessage(msg) ==
    LET msg_list == Split(msg, SP)
    IN  [command |-> msg_list[1],
         arg1 |-> IF Len(msg_list) >= 2 THEN msg_list[2] ELSE << >>,
         data |-> Join(SP, SubSeq(msg_list, 3, Len(msg_list)))]

\* Server.__process_message
ProcessMessage(s, fileno, bin_msg, ord) ==
    IF s.crashed THEN s
    ELSE IF bin_msg = << >> THEN s
    ELSE IF ~Decodable(bin_msg) THEN s
    ELSE LET m == ParseMessage(bin_msg)
         IN  ProcessCommand(s, fileno, m.command, m.arg1, m.data, ord)

RECURSIVE ProcessAll(_, _, _, _)
\* the loop "for bin_msg in bin_msg_list: self.__process_message(fileno, bin_msg)"
ProcessAll(s, fileno, bin_msg_list, ord) ==
    IF bin_msg_list = << >> THEN s
    ELSE ProcessAll(ProcessMessage(s, fileno, Head(bin_msg_list), ord), fileno,
                    Tail(bin_msg_list), ord)

\* a framer that keeps no part for the next chunk: FramingRoundTrip tells it
\* from Frames
FramesNoRest(request) ==
    [messages |-> Split(request, EOM), rest |-> << >>]

\* the framer of __receive_request_chunk: the complete messages of a request
\* that holds an EOM, and the part kept for the next chunk
Frames(request) ==
    LET bin_msg_list == Split(request, EOM)
        last == Len(bin_msg_list)
    IN  IF EndsWith(request, EOM)
        THEN [messages |-> SubSeq(bin_msg_list, 1, last - 1), rest |-> << >>]
        ELSE [messages |-> SubSeq(bin_msg_list, 1, last - 1),
              rest |-> bin_msg_list[last]]

\* __receive_request_chunk without the dump of a request that is too long:
\* BoundedInbound tells it from ReceiveRequestChunk
ReceiveRequestChunkNoDump(s, fileno, request_chunk, ord) ==
    IF s.crashed THEN s
    ELSE IF request_chunk = << >> /\ Condition(s, fileno) = "reset" THEN Raise(s)
    ELSE IF request_chunk = << >>
    THEN IF fileno \in DOMAIN s.connected THEN ClientLost(s, fileno)
         ELSE ConnectionRemove(s, fileno)
    ELSE LET request == s.requests[fileno] \o request_chunk
         IN  IF Contains(request, EOM)
             THEN ProcessAll([s EXCEPT !.requests[fileno] = Frames(request).rest],
                             fileno, Frames(request).messages, ord)
             ELSE [s EXCEPT !.requests[fileno] = request]

\* Server.__receive_request_chunk, the socket holding request_chunk for
\* recv(): the bytes the peer wrote, or none at the end of the stream, where
\* recv() returns b'' or, the connection reset, raises
ReceiveRequestChunk(s, fileno, request_chunk, ord) ==
    IF s.crashed THEN s
    ELSE IF fileno \notin s.connections THEN Raise(s)
    ELSE IF request_chunk = << >> /\ Condition(s, fileno) = "reset" THEN Raise(s)
    ELSE IF request_chunk = << >>
    THEN IF fileno \in DOMAIN s.connected THEN ClientLost(s, fileno)
         ELSE IF fileno \notin s.pending THEN Raise(s)
         ELSE ConnectionRemove(s, fileno)
    ELSE LET request == s.requests[fileno] \o request_chunk
         IN  IF Len(request) > MAX_REQUEST_SIZE
             THEN [s EXCEPT !.requests[fileno] = << >>]
             ELSE IF Contains(request, EOM)
             THEN LET f == Frames(request)
                  IN  ProcessAll([s EXCEPT !.requests[fileno] = f.rest], fileno,
                                 f.messages, ord)
             ELSE [s EXCEPT !.requests[fileno] = request]

\* __send_message_chunk that leaves the output pool after every chunk:
\* WriteInterest tells it from SendMessageChunk
SendMessageChunkDemotes(s, fileno, k) ==
    IF s.crashed THEN s
    ELSE IF fileno \notin DOMAIN s.connected THEN Raise(s)
    ELSE LET c == s.connected[fileno]
             got == GetMessageChunk(s.clients[c], BUFFER_SIZE)
             taken == SubSeq(got.msg_chunk, 1, k)
             s1 == SocketSend([s EXCEPT !.clients[c] = got.client], fileno, taken)
         IN  EpollModify(s1, fileno, EPOLLIN)

\* Server.__send_message_chunk, the socket taking the first k bytes of the chunk
SendMessageChunk(s, fileno, k) ==
    IF s.crashed THEN s
    ELSE IF fileno \notin DOMAIN s.connected THEN Raise(s)
    ELSE LET c == s.connected[fileno]
             got == GetMessageChunk(s.clients[c], BUFFER_SIZE)
             taken == SubSeq(got.msg_chunk, 1, k)
             s1 == SocketSend([s EXCEPT !.clients[c] = got.client], fileno, taken)
         IN  IF got.remaining = 0 THEN EpollModify(s1, fileno, EPOLLIN)
             ELSE s1

\* the end of an iteration that notes the refresh and removes nobody:
\* LostLeave tells it from Refresh
RefreshKeepsDead(s) ==
    IF s.crashed THEN s
    ELSE IF DOMAIN s.temp_lost # {} /\ (s.last_refresh - s.now) # 0
    THEN [s EXCEPT !.last_refresh = s.now]
    ELSE s

\* the end of an iteration of server_loop: refresh the temp lost list
Refresh(s) ==
    IF s.crashed THEN s
    ELSE IF DOMAIN s.temp_lost # {} /\ (s.last_refresh - s.now) # 0
    THEN ClientsRemoveDead([s EXCEPT !.last_refresh = s.now], s.now)
    ELSE s

(***************************************************************************)
(* Bounds of the model and the inputs of the peers                         *)
(***************************************************************************)
MaxConn == 2          \* descriptors accept() hands out
MaxInbound == 16      \* bytes a peer leaves without EOM (protocol runs)
MaxQueued == 6        \* bytes queued for one client (protocol runs)
MaxWire == 0          \* bytes of a connection's output a peer records
WireWindow == 32      \* the same, in the runs that watch the replies
MaxSmall == 1         \* clock readings short of a full lost window
MaxJumps == 1         \* full lost windows that pass
MaxSlice == 3         \* bytes of a script one recv() returns, short reads
LongSlice == 20       \* bytes of a script one recv() returns, long reads
LateSmall == 3        \* the same, in the runs that pass the lost window

FirstFd == 5          \* 0-2 are the standard streams, 3 the listening socket, 4 epoll
ListenFd == 3         \* Server.__socket.fileno()

Jump == LOST_TIMEOUT * Res

\* b'a', b'b': client names; b't', b'u': topics; b'x': data; b'FOO': no command
NameA == << 97 >>
NameB == << 98 >>
TopicT == << 116 >>
TopicU == << 117 >>
DataX == << 120 >>
FOO == << 70, 79, 79 >>
LF == << 10 >>

\* a message as a peer frames it
Frame(body) == body \o EOM

\* n bytes b'a'
Filler(n) == [i \in 1..n |-> 97]

\* what one recv() returns in the protocol runs; << >> is the peer's close
ProtocolChunks ==
    { << >>,
      Frame(CONNECT \o SP \o NameA),
      Frame(CONNECT \o SP \o NameB),
      Frame(SUBSCRIBE \o SP \o TopicT),
      Frame(UNSUBSCRIBE \o SP \o TopicT),
      Frame(PUBLISH \o SP \o TopicT \o SP \o DataX),
      Frame(DISCONNECT),
      Frame(FOO) \o Frame(PUBLISH \o SP \o TopicT \o SP \o DataX),
      Frame(DISCONNECT) \o Frame(SUBSCRIBE \o SP \o TopicT) }

\* the runs that watch the topic index: sessions of two names that subscribe
\* to two topics, unsubscribe, drop and come back
SubscriptionChunks ==
    { << >>,
      Frame(CONNECT \o SP \o NameA),
      Frame(CONNECT \o SP \o NameB),
      Frame(SUBSCRIBE \o SP \o TopicT),
      Frame(SUBSCRIBE \o SP \o TopicU),
      Frame(UNSUBSCRIBE \o SP \o TopicT),
      Frame(DISCONNECT) }

\* the runs that watch the replies: sessions of one name that subscribe,
\* publish and drop
WireChunks ==
    { << >>,
      Frame(CONNECT \o SP \o NameA),
      Frame(SUBSCRIBE \o SP \o TopicT),
      Frame(SUBSCRIBE \o SP \o TopicU),
      Frame(PUBLISH \o SP \o TopicT \o SP \o DataX) }

\* the runs that fill the request buffers
InChunks ==
    { Frame(CONNECT \o SP \o NameA),
      Filler(BUFFER_SIZE),
      Filler(BUFFER_SIZE - 24),
      Filler(5) \o EOM }

\* the orders in which a set of topics may iterate
TopicOrders == {[t \in {TopicT, TopicU} |-> IF t = first THEN 0 ELSE 1] :
                   first \in {TopicT, TopicU}}

\* the orders that differ on the topics of some lost client
Orders ==
    IF \E n \in DOMAIN temp_lost : Cardinality(clients[temp_lost[n]].topics) > 1
    THEN TopicOrders
    ELSE {CHOOSE o \in TopicOrders : TRUE}

\* the events one poll() returns at most: one of every descriptor.  In the
\* runs in which the clock stands (batch 1) the refresh never acts, so that an
\* iteration of several events is as many iterations of one event each.
MaxEvents == MaxConn + 1

\* the peers and the clock of the runs of each specification
Protocol ==
    [chunks |-> ProtocolChunks,
     conns |-> MaxConn, maxInbound |-> MaxInbound,
     batch |-> MaxEvents,
     maxQueued |-> MaxQueued, maxWire |-> MaxWire, shortfalls |-> {0},
     jumps |-> MaxJumps, small |-> MaxSmall]

Subscriptions ==
    [chunks |-> SubscriptionChunks,
     conns |-> MaxConn, maxInbound |-> MaxInbound,
     batch |-> MaxEvents,
     maxQueued |-> MaxQueued, maxWire |-> MaxWire, shortfalls |-> {0},
     jumps |-> MaxJumps, small |-> MaxSmall]

Replies ==
    [chunks |-> WireChunks,
     conns |-> MaxConn, maxInbound |-> MaxInbound,
     batch |-> MaxEvents,
     maxQueued |-> MaxQueued, maxWire |-> WireWindow, shortfalls |-> {0},
     jumps |-> MaxJumps, small |-> MaxSmall]

Inbound ==
    [chunks |-> InChunks, conns |-> 1, maxInbound |-> 2 * MAX_REQUEST_SIZE,
     batch |-> 1,
     maxQueued |-> MaxQueued, maxWire |-> MaxWire, shortfalls |-> {0},
     jumps |-> 0, small |-> 0]

\* the runs that pass the lost window: sessions of one name that subscribe,
\* drop and come back
ExpiryChunks ==
    { << >>,
      Frame(CONNECT \o SP \o NameA),
      Frame(SUBSCRIBE \o SP \o TopicT),
      Frame(PUBLISH \o SP \o TopicT \o SP \o DataX) }

Expiry ==
    [chunks |-> ExpiryChunks,
     conns |-> MaxConn, maxInbound |-> MaxInbound,
     batch |-> MaxEvents,
     maxQueued |-> MaxQueued, maxWire |-> WireWindow, shortfalls |-> {0},
     jumps |-> MaxJumps, small |-> LateSmall]

\* the runs with names at the bound of the repository's client: names of
\* MAX_NAME_LEN bytes and of one more, and no name
NameChunks ==
    { << >>,
      Frame(CONNECT \o SP \o Filler(MAX_NAME_LEN)),
      Frame(CONNECT \o SP \o Filler(MAX_NAME_LEN + 1)),
      Frame(CONNECT \o SP),
      Frame(CONNECT),
      Frame(SUBSCRIBE \o SP \o TopicT),
      Frame(DISCONNECT) }

Names ==
    [chunks |-> NameChunks,
     conns |-> MaxConn, maxInbound |-> MaxInbound,
     batch |-> MaxEvents,
     maxQueued |-> MaxQueued, maxWire |-> MaxWire, shortfalls |-> {0},
     jumps |-> MaxJumps, small |-> MaxSmall]

\* the runs in which the loop keeps ticking: sessions of two names that
\* subscribe, drop and come back while the clock goes on
LingerJumps == 3      \* full lost windows that pass in these runs

LingerChunks ==
    { << >>,
      Frame(CONNECT \o SP \o NameA),
      Frame(CONNECT \o SP \o NameB),
      Frame(SUBSCRIBE \o SP \o TopicT) }

Linger ==
    [chunks |-> LingerChunks,
     conns |-> MaxConn, maxInbound |-> MaxInbound,
     batch |-> MaxEvents,
     maxQueued |-> MaxQueued, maxWire |-> MaxWire, shortfalls |-> {0},
     jumps |-> LingerJumps, small |-> MaxSmall]

\* the runs with peers that never hang up and may write on every iteration:
\* sessions of two names that subscribe, publish and change their topics
BusyChunks ==
    { Frame(CONNECT \o SP \o NameA),
      Frame(CONNECT \o SP \o NameB),
      Frame(SUBSCRIBE \o SP \o TopicT),
      Frame(PUBLISH \o SP \o TopicT \o SP \o DataX),
      Frame(SUBSCRIBE \o SP \o TopicU),
      Frame(UNSUBSCRIBE \o SP \o TopicU) }

Busy ==
    [chunks |-> BusyChunks, conns |-> MaxConn, maxInbound |-> MaxInbound,
     batch |-> 1,
     maxQueued |-> MaxQueued, maxWire |-> MaxWire, shortfalls |-> {0},
     jumps |-> 0, small |-> 0]

Filenos(P) == FirstFd..(FirstFd + P.conns - 1)

\* the peers stay within the bounds of the run.  They keep no more than
\* P.conns connections open: a peer that connects while no descriptor is free
\* is one that poll() reports with a connection whose end of stream frees a
\* descriptor before the turn of the listening socket comes
EnvBound(P, s) ==
    /\ \A f \in DOMAIN s.requests : Len(s.requests[f]) <= P.maxInbound
    /\ \A c \in DOMAIN s.clients : Len(s.clients[c].message_stream) <= P.maxQueued
    /\ (ListenFd \in DOMAIN s.events /\ Filenos(P) \ s.connections = {})
           => \E g \in DOMAIN s.events \ {ListenFd} : s.events[g] = EPOLLIN

\* the peer's record of a connection: the first maxWire bytes it was sent
Observe(P, s) ==
    [s EXCEPT !.wire = [f \in DOMAIN @ |->
                           IF Len(@[f]) > P.maxWire THEN SubSeq(@[f], 1, P.maxWire)
                           ELSE @[f]]]

\* the clock may advance by d.  The handlers read only differences of clock
\* readings, and those only of lost clients, so the runs let the clock stand
\* while no client is lost.
TimeOk(P, d) ==
    /\ now + d <= P.jumps * Jump + P.small
    /\ d < Jump => (now % Jump) + d <= P.small
    /\ d > 0 => DOMAIN temp_lost # {}

(***************************************************************************)
(* Scripts: the peer of a descriptor writes a fixed sequence of bytes, over *)
(* as many connections as it takes, and recv() returns it in slices        *)
(***************************************************************************)
AllFilenos == FirstFd..(FirstFd + MaxConn - 1)

RECURSIVE FrameAll(_)
FrameAll(msgs) ==
    IF msgs = << >> THEN << >> ELSE Frame(Head(msgs)) \o FrameAll(Tail(msgs))

RECURSIVE Ends(_, _)
\* the positions in a script where its writes end
Ends(writes, from) ==
    IF writes = << >> THEN {}
    ELSE {from + Len(Head(writes))}
             \cup Ends(Tail(writes), from + Len(Head(writes)))

RECURSIVE Concat(_)
Concat(writes) ==
    IF writes = << >> THEN << >> ELSE Head(writes) \o Concat(Tail(writes))

\* the framing runs: a session of one's own topic, with line feeds next to EOM
\* b'a', b'b', ... and b't', b'u', ... by descriptor
ScriptName(fileno) == << 97 + (fileno - FirstFd) >>
ScriptTopic(fileno) == << 116 + (fileno - FirstFd) >>

\* the messages the peer of a descriptor writes, each followed by EOM
ScriptMessages(fileno) ==
    << CONNECT \o SP \o ScriptName(fileno),
       SUBSCRIBE \o SP \o ScriptTopic(fileno),
       PUBLISH \o SP \o ScriptTopic(fileno) \o SP \o DataX \o LF,
       PUBLISH \o SP \o ScriptTopic(fileno) \o SP \o LF \o DataX,
       PUBLISH \o SP \o ScriptTopic(fileno) \o SP \o LF \o LF >>

\* and the part of a further message it writes last
ScriptPartial == << 80, 85 >>

\* the bytes the peer of a descriptor writes
Script(fileno) == FrameAll(ScriptMessages(fileno)) \o ScriptPartial

\* recv() may return any slice of them; what the connections are sent is
\* recorded in full
Framing ==
    [script |-> [f \in AllFilenos |-> Script(f)],
     stops |-> [f \in AllFilenos |-> 1..Len(Script(f))],
     sizes |-> (1..MaxSlice) \cup {LongSlice, 2 * LongSlice},
     hangups |-> [f \in AllFilenos |-> {}],
     conns |-> MaxConn, maxInbound |-> MAX_REQUEST_SIZE,
     batch |-> 1,
     maxQueued |-> MAX_STREAM_SIZE, maxWire |-> MAX_STREAM_SIZE,
     shortfalls |-> {0}]

\* the runs that fill the message streams.  A PUBLISH to b't' as long as a
\* request may be: its message is 8 bytes short of MAX_STREAM_SIZE
BigFrame == Frame(PUBLISH \o SP \o TopicT \o SP \o Filler(MAX_REQUEST_SIZE - 13))

RECURSIVE Blocks(_)
\* a byte string as the writes of at most BUFFER_SIZE bytes that carry it
Blocks(bytes) ==
    IF Len(bytes) <= BUFFER_SIZE THEN << bytes >>
    ELSE << SubSeq(bytes, 1, BUFFER_SIZE) >>
             \o Blocks(SubSeq(bytes, BUFFER_SIZE + 1, Len(bytes)))

\* the writes of the first peer: it subscribes to b't', publishes the big
\* message and a message of 6 bytes, [may hang up and come back,] and
\* publishes 6 bytes more
WritesA ==
    << Frame(CONNECT \o SP \o NameA) \o Frame(SUBSCRIBE \o SP \o TopicT) >>
        \o Blocks(BigFrame)
        \o << Frame(PUBLISH \o SP \o TopicT \o SP \o DataX),
              Frame(CONNECT \o SP \o NameA),
              Frame(PUBLISH \o SP \o TopicT \o SP \o DataX) >>

\* the writes of the other peers: they subscribe to b't', [may hang up and
\* come back,] and publish a message of 8 bytes
WritesB ==
    << Frame(CONNECT \o SP \o NameB) \o Frame(SUBSCRIBE \o SP \o TopicT),
       Frame(CONNECT \o SP \o NameB),
       Frame(PUBLISH \o SP \o TopicT \o SP \o DataX \o DataX \o DataX) >>

OutWrites(fileno) == IF fileno = FirstFd THEN WritesA ELSE WritesB

\* where the peer of a descriptor may hang up: before it sends CONNECT again
OutHangups(fileno) ==
    IF fileno = FirstFd THEN {Len(Concat(WritesA)) - 26} ELSE {26}

\* recv() returns what the peer wrote; what the connections are sent is not
\* recorded
Outbound ==
    [script |-> [f \in AllFilenos |-> Concat(OutWrites(f))],
     stops |-> [f \in AllFilenos |-> Ends(OutWrites(f), 0)],
     sizes |-> 1..BUFFER_SIZE,
     hangups |-> [f \in AllFilenos |-> OutHangups(f)],
     conns |-> MaxConn, maxInbound |-> MAX_REQUEST_SIZE,
     batch |-> 1,
     maxQueued |-> 2 * MAX_STREAM_SIZE, maxWire |-> MaxWire,
     shortfalls |-> {0}]

\* the runs that drain the message streams.  n bytes of digits, b'1234567890...'
Digits(n) == [i \in 1..n |-> 48 + (i % 10)]

\* the messages the peer of a descriptor writes: it subscribes to its own
\* topic, publishes a message that takes two chunks to send and a short one,
\* [may hang up and come back,] sends CONNECT again and publishes once more
DeliveryMessages(fileno) ==
    << CONNECT \o SP \o ScriptName(fileno),
       SUBSCRIBE \o SP \o ScriptTopic(fileno),
       PUBLISH \o SP \o ScriptTopic(fileno) \o SP \o Digits(BUFFER_SIZE + 8),
       PUBLISH \o SP \o ScriptTopic(fileno) \o SP \o DataX,
       CONNECT \o SP \o ScriptName(fileno),
       PUBLISH \o SP \o ScriptTopic(fileno) \o SP \o LF \o DataX >>

\* its writes, of at most BUFFER_SIZE bytes each
DeliveryWrites(fileno) ==
    LET msgs == DeliveryMessages(fileno)
    IN  << Frame(msgs[1]) \o Frame(msgs[2]) >>
            \o Blocks(Frame(msgs[3]))
            \o << Frame(msgs[4]), Frame(msgs[5]), Frame(msgs[6]) >>

\* where it may hang up: before it sends CONNECT again
DeliveryHangups(fileno) ==
    {Len(FrameAll(SubSeq(DeliveryMessages(fileno), 1, 4)))}

\* recv() returns what the peer wrote; what the connections are sent is
\* recorded in full
Delivery ==
    [script |-> [f \in AllFilenos |-> Concat(DeliveryWrites(f))],
     stops |-> [f \in AllFilenos |-> Ends(DeliveryWrites(f), 0)],
     sizes |-> 1..BUFFER_SIZE,
     hangups |-> [f \in AllFilenos |-> DeliveryHangups(f)],
     conns |-> MaxConn, maxInbound |-> MAX_REQUEST_SIZE,
     batch |-> 1,
     maxQueued |-> MAX_STREAM_SIZE, maxWire |-> MAX_STREAM_SIZE,
     shortfalls |-> {0}]

\* the same, the sockets taking all of a chunk or all but its last bytes
ShortSends ==
    [Delivery EXCEPT !.shortfalls = {0, MaxSlice}]

(***************************************************************************)
(* Server.server_loop                                                      *)
(***************************************************************************)
Commit(s) ==
    /\ connections' = s.connections
    /\ pending' = s.pending
    /\ requests' = s.requests
    /\ connected' = s.connected
    /\ connected_names' = s.connected_names
    /\ temp_lost' = s.temp_lost
    /\ topics' = s.topics
    /\ last_refresh' = s.last_refresh
    /\ clients' = s.clients
    /\ epoll' = s.epoll
    /\ wire' = s.wire
    /\ now' = s.now
    /\ crashed' = s.crashed
    /\ events' = s.events

\* the state when poll() returns after d clock readings
Polled(d) == [State EXCEPT !.now = now + d]

\* whether recv() on a descriptor has something to return: what the peer has
\* written, the end of the stream or an error
Readable(P, fileno) ==
    IF "script" \in DOMAIN P
    THEN \/ \E n \in P.sizes : fed[fileno] + n \in P.stops[fileno]
         \/ fed[fileno] \in P.hangups[fileno]
    ELSE TRUE

\* the branches of the for loop that poll() may give a descriptor: the
\* listening socket is reported when a peer waits to be accepted, which a
\* peer may at any time, a connection with EPOLLIN (with or without EPOLLOUT:
\* the read is the branch taken) when recv() has something to return, and
\* with EPOLLOUT alone when it is in the output pool
Masks(P, fileno) ==
    IF fileno = ListenFd
    THEN {EPOLLIN}
    ELSE IF fileno \in DOMAIN epoll
    THEN (IF Readable(P, fileno) THEN {EPOLLIN} ELSE {})
         \cup (IF "OUT" \in epoll[fileno] /\ fileno \in DOMAIN connected
               THEN {EPOLLOUT} ELSE {})
    ELSE {}

\* the events poll() may return beside the one of fileno: any of the other
\* ready descriptors, P.batch events at most in all
Rest(P, fileno) ==
    LET others == {g \in (DOMAIN epoll \cup {ListenFd}) \ {fileno} :
                      Masks(P, g) # {}}
    IN  UNION {{r \in [S -> {EPOLLIN, EPOLLOUT}] :
                   \A g \in S : r[g] \in Masks(P, g)} :
               S \in {T \in SUBSET others : Cardinality(T) < P.batch}}

\* the lists of events that may wait when the for loop turns to the event
\* (fileno, event): those poll() returned beside it, when it is the first of
\* an iteration that starts after d clock readings, or, the clock not being
\* read again, the others that wait, when it is one of them
Turn(P, d, fileno, event) ==
    IF events = << >>
    THEN IF event \in Masks(P, fileno) THEN Rest(P, fileno) ELSE {}
    ELSE IF d = 0 /\ fileno \in DOMAIN events /\ events[fileno] = event
    THEN {Drop(events, fileno)}
    ELSE {}

\* the turn of server_loop for the listening socket
LoopAccept(s, fileno) == ConnectionRegister(s, fileno)

\* the turn of server_loop for EPOLLIN on a connection
LoopReceive(s, fileno, request_chunk, ord) ==
    ReceiveRequestChunk(s, fileno, request_chunk, ord)

\* what that turn may leave: the socket is in one of the conditions in which
\* recv() can return request_chunk, and the condition goes with the turn
Receives(s, fileno, request_chunk, ord) ==
    {[LoopReceive(Peer(s, fileno, cond), fileno, request_chunk, ord)
          EXCEPT !.sock = << >>] : cond \in Conditions(request_chunk)}

\* the turn of server_loop for EPOLLOUT alone on a connection
LoopSend(s, fileno, k) == SendMessageChunk(s, fileno, k)

\* the conditions in which send() can find the socket of a descriptor that
\* poll() reported with EPOLLOUT alone: its peer was there, and may have
\* closed or reset the connection since
SendConditions == {"open", "closed", "reset"}

\* what that turn may leave, the condition going with the turn
Sends(s, fileno, k) ==
    {[LoopSend(Peer(s, fileno, cond), fileno, k) EXCEPT !.sock = << >>] :
        cond \in SendConditions}

\* the end of a turn, rest being the events that wait: the refresh runs when
\* the list is through; an exception leaves the loop and the list
EndOfEvent(s, rest) ==
    IF s.crashed THEN [s EXCEPT !.events = << >>]
    ELSE IF rest = << >> THEN Refresh([s EXCEPT !.events = << >>])
    ELSE [s EXCEPT !.events = rest]

\* an iteration of server_loop with no event
LoopIdle(s) == Refresh(s)

\* a turn for the listening socket: a connection is accepted; accept()
\* returns the lowest free descriptor
Accept(P) ==
    /\ ~crashed
    /\ Filenos(P) \ connections # {}
    /\ Turn(P, 0, ListenFd, EPOLLIN) # {}
    /\ \E h \in {LoopAccept(Polled(0), Min(Filenos(P) \ connections))},
          rest \in Turn(P, 0, ListenFd, EPOLLIN) :
        \E s \in {Observe(P, EndOfEvent(h, rest))} :
           EnvBound(P, s) /\ Commit(s)
    /\ UNCHANGED fed

\* a turn for EPOLLIN on a connection: a chunk is received
Receive(P) ==
    \E d \in 0..(Res - 1), fileno \in DOMAIN epoll :
        /\ ~crashed
        /\ TimeOk(P, d)
        /\ \E rests \in {Turn(P, d, fileno, EPOLLIN)} :
            /\ rests # {}
            /\ \E chunk \in P.chunks, ord \in Orders :
                /\ Len(chunk) <= BUFFER_SIZE
                /\ \E h \in Receives(Polled(d), fileno, chunk, ord),
                      rest \in rests :
                    \E s \in {Observe(P, EndOfEvent(h, rest))} :
                       EnvBound(P, s) /\ Commit(s)
        /\ UNCHANGED fed

\* the same, the chunk arriving just as the second poll() waits has passed
ReceiveAtTimeout(P) ==
    \E fileno \in DOMAIN epoll :
        /\ ~crashed
        /\ TimeOk(P, Res)
        /\ \E rests \in {Turn(P, Res, fileno, EPOLLIN)} :
            /\ rests # {}
            /\ \E chunk \in P.chunks, ord \in Orders :
                /\ Len(chunk) <= BUFFER_SIZE
                /\ \E h \in Receives(Polled(Res), fileno, chunk, ord),
                      rest \in rests :
                    \E s \in {Observe(P, EndOfEvent(h, rest))} :
                       EnvBound(P, s) /\ Commit(s)
        /\ UNCHANGED fed

\* the same, recv() returning the next n bytes of the peer's script
Feed(P) ==
    \E fileno \in DOMAIN epoll, n \in P.sizes, ord \in Orders :
        /\ ~crashed
        /\ n <= BUFFER_SIZE
        /\ fed[fileno] + n \in P.stops[fileno]
        /\ Turn(P, 0, fileno, EPOLLIN) # {}
        /\ \E chunk \in {SubSeq(P.script[fileno], fed[fileno] + 1,
                                fed[fileno] + n)} :
            \E h \in Receives(Polled(0), fileno, chunk, ord),
               rest \in Turn(P, 0, fileno, EPOLLIN) :
                \E s \in {Observe(P, EndOfEvent(h, rest))} :
                   EnvBound(P, s) /\ Commit(s)
        /\ fed' = [fed EXCEPT ![fileno] = @ + n]

\* the same at the end of the stream: the peer has hung up where its script
\* says
Hangup(P) ==
    \E fileno \in DOMAIN epoll, ord \in Orders :
        /\ ~crashed
        /\ fed[fileno] \in P.hangups[fileno]
        /\ Turn(P, 0, fileno, EPOLLIN) # {}
        /\ \E h \in Receives(Polled(0), fileno, << >>, ord),
              rest \in Turn(P, 0, fileno, EPOLLIN) :
            \E s \in {Observe(P, EndOfEvent(h, rest))} :
               EnvBound(P, s) /\ Commit(s)
        /\ UNCHANGED fed

\* a turn for EPOLLOUT alone on a connection: a chunk is sent, the socket
\* taking all of it but the last short bytes
Send(P) ==
    \E fileno \in DOMAIN epoll, short \in P.shortfalls :
        /\ ~crashed
        /\ "OUT" \in epoll[fileno]
        /\ fileno \in DOMAIN connected
        /\ Turn(P, 0, fileno, EPOLLOUT) # {}
        /\ LET size == MessageStreamSize(clients[connected[fileno]])
               chunk == IF size > BUFFER_SIZE THEN BUFFER_SIZE ELSE size
           IN  /\ short <= chunk
               /\ \E h \in Sends(Polled(0), fileno, chunk - short),
                     rest \in Turn(P, 0, fileno, EPOLLOUT) :
                   \E s \in {Observe(P, EndOfEvent(h, rest))} :
                      EnvBound(P, s) /\ Commit(s)
        /\ UNCHANGED fed

\* an iteration with no event: poll() timed out after a second or more
Timeout(P) ==
    \E d \in {Res, Jump} :
        /\ ~crashed
        /\ events = << >>
        /\ TimeOk(P, d)
        /\ \E s \in {LoopIdle(Polled(d))} : Commit(s)
        /\ UNCHANGED fed

\* the peers connect, write and hang up only while the clock of the run can
\* still pass two lost windows, so that a run never ends with a client just
\* lost; the events poll() has returned are all handled
InTime(P) ==
    events = << >> => now + 2 * Jump <= P.jumps * Jump + P.small

AcceptInTime(P) == InTime(P) /\ Accept(P)

ReceiveInTime(P) == InTime(P) /\ Receive(P)

\* the for loop of server_loop goes on to an event that waits
GoOn(P) ==
    /\ events # << >>
    /\ (AcceptInTime(P) \/ ReceiveInTime(P))

\* a turn for an event on the descriptor that has EPOLLIN, with or without
\* EPOLLOUT: the first branch taken for a descriptor is the read
ReceiveOn(P, fileno) ==
    /\ ~crashed
    /\ fileno \in DOMAIN epoll
    /\ \E rests \in {Turn(P, 0, fileno, EPOLLIN)} :
        /\ rests # {}
        /\ \E chunk \in P.chunks, ord \in Orders :
            /\ Len(chunk) <= BUFFER_SIZE
            /\ \E h \in Receives(Polled(0), fileno, chunk, ord),
                  rest \in rests :
                \E s \in {Observe(P, EndOfEvent(h, rest))} :
                   EnvBound(P, s) /\ Commit(s)
    /\ UNCHANGED fed

\* a turn for EPOLLOUT alone on the descriptor: the peer has written
\* nothing, and a chunk is sent
SendOn(P, fileno) ==
    /\ ~crashed
    /\ fileno \in DOMAIN epoll
    /\ "OUT" \in epoll[fileno]
    /\ fileno \in DOMAIN connected
    /\ Turn(P, 0, fileno, EPOLLOUT) # {}
    /\ LET size == MessageStreamSize(clients[connected[fileno]])
           chunk == IF size > BUFFER_SIZE THEN BUFFER_SIZE ELSE size
       IN  \E h \in Sends(Polled(0), fileno, chunk),
              rest \in Turn(P, 0, fileno, EPOLLOUT) :
               \E s \in {Observe(P, EndOfEvent(h, rest))} :
                   EnvBound(P, s) /\ Commit(s)
    /\ UNCHANGED fed

\* the turn that serves a descriptor of the output pool.  Its socket
\* being writable, poll() reports the descriptor on every call, whatever its
\* peer does, and the loop handles every descriptor poll() reports: by the
\* write if the peer has written nothing, by the read if it has
ServeOn(P, fileno) ==
    /\ fileno \in DOMAIN epoll
    /\ "OUT" \in epoll[fileno]
    /\ (SendOn(P, fileno) \/ ReceiveOn(P, fileno))

Init ==
    /\ connections = {}
    /\ pending = {}
    /\ requests = << >>
    /\ connected = << >>
    /\ connected_names = << >>
    /\ temp_lost = << >>
    /\ topics = << >>
    /\ last_refresh = 0
    /\ clients = << >>
    /\ epoll = << >>
    /\ wire = << >>
    /\ now = 0
    /\ crashed = FALSE
    /\ events = << >>
    /\ fed = [f \in AllFilenos |-> 0]

\* the protocol runs: sessions, topics and the lost window
Next ==
    \/ Accept(Protocol)
    \/ Receive(Protocol)
    \/ Send(Protocol)
    \/ Timeout(Protocol)

Spec == Init /\ [][Next]_vars

\* the runs that watch the topic index
NextSubscriptions ==
    \/ Accept(Subscriptions)
    \/ Receive(Subscriptions)
    \/ Timeout(Subscriptions)

SpecSubscriptions == Init /\ [][NextSubscriptions]_vars

\* the runs that watch what the server sends
NextReplies ==
    \/ Accept(Replies)
    \/ Receive(Replies)
    \/ Send(Replies)
    \/ Timeout(Replies)

SpecReplies == Init /\ [][NextReplies]_vars

\* the framing runs: scripts read in slices
NextFraming ==
    \/ Accept(Framing)
    \/ Feed(Framing)
    \/ Send(Framing)

SpecFraming == Init /\ [][NextFraming]_vars

\* the runs that fill the message streams
NextOutbound ==
    \/ Accept(Outbound)
    \/ Feed(Outbound)
    \/ Hangup(Outbound)
    \/ Send(Outbound)

SpecOutbound == Init /\ [][NextOutbound]_vars

\* the runs that pass the lost window
NextExpiry ==
    \/ Accept(Expiry)
    \/ Receive(Expiry)
    \/ ReceiveAtTimeout(Expiry)
    \/ Send(Expiry)
    \/ Timeout(Expiry)

SpecExpiry == Init /\ [][NextExpiry]_vars

\* the runs that drain the message streams
NextDelivery ==
    \/ Accept(Delivery)
    \/ Feed(Delivery)
    \/ Hangup(Delivery)
    \/ Send(Delivery)

SpecDelivery == Init /\ [][NextDelivery]_vars

\* the same with partial writes
NextShortSends ==
    \/ Accept(ShortSends)
    \/ Feed(ShortSends)
    \/ Hangup(ShortSends)
    \/ Send(ShortSends)

SpecShortSends == Init /\ [][NextShortSends]_vars

\* the runs with names at the bound
NextNames ==
    \/ Accept(Names)
    \/ Receive(Names)
    \/ Timeout(Names)

SpecNames == Init /\ [][NextNames]_vars

\* the runs in which the loop keeps ticking and the clock keeps advancing:
\* the for loop handles the events poll() returned one after the other,
\* without waiting, and, the clock going on while the peers write, poll()
\* comes to return at later readings again and again while a client is lost
NextLinger ==
    \/ AcceptInTime(Linger)
    \/ ReceiveInTime(Linger)
    \/ Timeout(Linger)

SpecLinger ==
    /\ Init
    /\ [][NextLinger]_vars
    /\ WF_vars(GoOn(Linger))
    /\ SF_vars(Timeout(Linger))

\* the runs with busy peers: the loop keeps iterating, so a descriptor that
\* stays in the output pool is served again and again
NextBusy ==
    \/ Accept(Busy)
    \/ \E fileno \in Filenos(Busy) : ReceiveOn(Busy, fileno)
    \/ \E fileno \in Filenos(Busy) : SendOn(Busy, fileno)

SpecBusy ==
    /\ Init
    /\ [][NextBusy]_vars
    /\ \A fileno \in Filenos(Busy) : WF_vars(ServeOn(Busy, fileno))

\* the runs that fill the request buffers
NextInbound ==
    \/ Accept(Inbound)
    \/ Receive(Inbound)

SpecInbound == Init /\ [][NextInbound]_vars

(***************************************************************************)
(* The properties                                                          *)
(***************************************************************************)
\* the Client records that hold a name: the connected and the lost ones
LiveClients ==
    {connected_names[n] : n \in DOMAIN connected_names}
        \cup {temp_lost[n] : n \in DOMAIN temp_lost}

Topics == {TopicT, TopicU}

IsPrefix(a, b) == Len(a) <= Len(b) /\ SubSeq(b, 1, Len(a)) = a

\* C1 (name uniqueness): between loop ticks no name is held by two Client
\* records: the connected names and the lost names are disjoint, every name
\* maps to the one record of that name, and every descriptor bound to a client
\* is bound to the record its name maps to.
NameUniqueness ==
    /\ DOMAIN connected_names \cap DOMAIN temp_lost = {}
    /\ \A n \in DOMAIN connected_names : clients[connected_names[n]].name = n
    /\ \A n \in DOMAIN temp_lost : clients[temp_lost[n]].name = n
    /\ \A c, e \in DOMAIN clients : clients[c].name = clients[e].name => c = e
    /\ \A f \in DOMAIN connected :
           /\ clients[connected[f]].name \in DOMAIN connected_names
           /\ connected_names[clients[connected[f]].name] = connected[f]

\* C1, the case: a client is connected and another is lost while time passes
NamesConnectedAndLost ==
    /\ DOMAIN connected_names # {}
    /\ DOMAIN temp_lost # {}
    /\ pending # {}
    /\ now > 0

\* C2 (topic index consistency): for every live client c, connected or lost,
\* and every topic t, c is in the topic index set of t iff t is in c's
\* subscription set.
TopicIndexConsistency ==
    \A c \in LiveClients :
        \A t \in Topics \cup DOMAIN topics \cup clients[c].topics :
            (t \in DOMAIN topics /\ c \in topics[t]) <=> t \in clients[c].topics

\* C2, the case: a topic with a connected and a lost subscriber, and another
\* topic that only one of them holds
TopicSharedByConnectedAndLost ==
    \E c, e \in LiveClients :
        /\ clients[c].connected
        /\ ~clients[e].connected
        /\ TopicT \in clients[c].topics \cap clients[e].topics
        /\ TopicU \in clients[e].topics \ clients[c].topics

\* C3 (no empty topic sets): every key of the topic index maps to a nonempty
\* set; a topic that no live client subscribes to is absent from the index,
\* and a PUBLISH to it from any connected client delivers nothing.
NoEmptyTopicSets ==
    /\ \A t \in DOMAIN topics : topics[t] # {}
    /\ \A t \in Topics :
           (\A c \in LiveClients : t \notin clients[c].topics) =>
               /\ t \notin DOMAIN topics
               /\ \A f \in DOMAIN connected, ord \in Orders :
                      ProcessMessage(State, f,
                                     PUBLISH \o SP \o t \o SP \o DataX, ord) = State

\* C3, the case: b't' was published to a client that holds the message still,
\* the last subscriber of b't' is gone, and a client is connected to publish
TopicDeletedAfterLastSubscriber ==
    /\ TopicT \notin DOMAIN topics
    /\ DOMAIN connected # {}
    /\ \E c \in LiveClients :
           clients[c].message_stream = TopicT \o SP \o DataX \o EOM

\* C4 (input errors never stop the broker): no sequence of reads drives the
\* loop into the aborted state, an exception having left server_loop.
NeverAborts == ~crashed

\* C5 (an unbound connection has no effect but through CONNECT): a read on a
\* pending connection that does not bind it to a client leaves the topic
\* index and every client's subscriptions and outbound buffer as they were,
\* and a first frame other than CONNECT removes the connection with no reply.
UnboundHasNoEffect ==
    crashed \/
    \A f \in pending, chunk \in (ProtocolChunks \cup SubscriptionChunks) \ {<< >>},
       ord \in Orders :
        LET s == ReceiveRequestChunk(State, f, chunk, ord)
        IN  /\ f \notin DOMAIN s.connected =>
                  /\ s.topics = topics
                  /\ s.clients = clients
            /\ (requests[f] = << >> /\ ~IsPrefix(CONNECT \o SP, chunk)) =>
                  /\ f \notin s.connections
                  /\ s.wire = wire

\* the record of the lost client of name n is restored on the pending
\* connection f by CONNECT n, whatever its peer has done to the connection
\* since it wrote the frame
RestoredOnConnect ==
    crashed \/
    \A n \in DOMAIN temp_lost, f \in pending, ord \in TopicOrders :
        \A cond \in Conditions(CONNECT \o SP \o n) :
            LET c == temp_lost[n]
                S == clients[c].topics
                r == ProcessMessage(Peer(State, f, cond), f, CONNECT \o SP \o n, ord)
            IN  /\ ~r.crashed
                /\ n \notin DOMAIN r.temp_lost
                /\ n \in DOMAIN r.connected_names /\ r.connected_names[n] = c
                /\ f \in DOMAIN r.connected /\ r.connected[f] = c
                /\ r.clients[c].topics = S
                /\ r.wire[f] = wire[f] \o MSG_RESTORED \o n \o EOM
                                    \o JoinTopics(S, ord) \o EOM

\* a step in which the lost client of name n stays lost, or is restored, or a
\* bound connection is sent more
SurvivalStep ==
    /\ \A n \in DOMAIN temp_lost :
          LET c == temp_lost[n]
              S == clients[c].topics
          IN  /\ n \in DOMAIN temp_lost' =>
                    /\ temp_lost'[n] = c
                    /\ clients'[c].topics = S
              /\ n \in DOMAIN connected_names' =>
                    /\ n \notin DOMAIN temp_lost'
                    /\ connected_names'[n] = c
                    /\ clients'[c].connected
                    /\ clients'[c].topics = S
                    /\ clients'[c].message_stream = clients[c].message_stream
                    /\ \E f \in pending \cap DOMAIN connected' :
                          /\ connected'[f] = c
                          /\ clients'[c].fileno = f
                          /\ "OUT" \in epoll'[f] <=> clients[c].message_stream # << >>
                          /\ \E p \in [1..Cardinality(S) -> S] :
                                /\ \A i, j \in DOMAIN p : p[i] = p[j] => i = j
                                /\ wire'[f] = MSG_RESTORED \o n \o EOM
                                                  \o Join(SP, p) \o EOM
    /\ \A f \in DOMAIN connected \cap DOMAIN connected' :
           connected'[f] = connected[f] => IsPrefix(wire[f], wire'[f])

\* C6 (subscription survival): a lost client keeps its record and its
\* subscriptions while it is lost; when a pending connection sends CONNECT
\* with its name before it is swept, the record is restored: it is the
\* connected client of the name and of that connection, its subscriptions and
\* its queued bytes are as they were, and what the connection has been sent
\* is the frame RESTORED <name> and the frame of the topics joined by spaces
\* in some order (an empty frame for no topics).  A bound connection keeps
\* what it was sent in front of what it is sent later.
SubscriptionSurvival ==
    /\ []RestoredOnConnect
    /\ [][SurvivalStep]_vars

HasRoom(client, message) ==
    Len(client.message_stream) + Len(message) < MAX_STREAM_SIZE

\* the message would fill the buffer to the cap exactly
Filled(client, message) ==
    Len(client.message_stream) + Len(message) = MAX_STREAM_SIZE

\* what C7 is about: PUBLISH t data, processed for the connected fileno f,
\* appends the framed message to the buffer of every client of the topic's
\* set and changes nothing else of any client or of the index.  If capped,
\* that is said of the subscribers with room for the message, the buffer of
\* a subscriber that the message would overflow is unchanged, and of the
\* buffer the message would fill to the cap exactly nothing is said but
\* that it is as it was or has the message appended
FanOut(capped) ==
    \A f \in DOMAIN connected, t \in Topics, data \in {DataX, DataX \o DataX \o DataX},
       ord \in Orders :
        LET message == t \o SP \o data \o EOM
            s == ProcessMessage(State, f, PUBLISH \o SP \o t \o SP \o data, ord)
            members == IF t \in DOMAIN topics THEN topics[t] ELSE {}
        IN  /\ ~s.crashed
            /\ s.topics = topics
            /\ DOMAIN s.clients = DOMAIN clients
            /\ \A c \in DOMAIN clients :
                   LET with == [clients[c] EXCEPT !.message_stream = @ \o message]
                   IN  IF c \in members /\ (capped => HasRoom(clients[c], message))
                       THEN s.clients[c] = with
                       ELSE IF c \in members /\ Filled(clients[c], message)
                       THEN s.clients[c] \in {with, clients[c]}
                       ELSE s.clients[c] = clients[c]
            /\ members = {} => s = State

RECURSIVE EndOf(_, _)
EndOf(msgs, j) ==
    IF j = 0 THEN 0 ELSE EndOf(msgs, j - 1) + Len(msgs[j]) + Len(EOM)

Complete(msgs, k) ==
    CHOOSE j \in 0..Len(msgs) :
        /\ EndOf(msgs, j) <= k
        /\ j < Len(msgs) => EndOf(msgs, j + 1) > k

RECURSIVE Delivered(_, _)
\* what the publishes among the first j messages of a script queue for a
\* subscriber: for each, in order, the message less its command, and EOM
Delivered(msgs, j) ==
    IF j <= 2 THEN << >>
    ELSE Delivered(msgs, j - 1)
             \o SubSeq(msgs[j], Len(PUBLISH) + 2, Len(msgs[j])) \o EOM

\* C8 (framing round-trip): however the reads cut the bytes of a script, when
\* k bytes have been read by a loop that is still running the command
\* processor has been handed the messages
\* that end within them, each once and in order: the CONNECT has bound the
\* connection, the SUBSCRIBE has subscribed it, the publishes are queued in
\* order; the inbound buffer is what follows the last complete message, empty
\* iff the bytes read end with EOM.
FramingRoundTrip ==
    crashed \/
    \A f \in connections :
        LET msgs == ScriptMessages(f)
            k == fed[f]
            j == Complete(msgs, k)
        IN  /\ requests[f] = SubSeq(Script(f), EndOf(msgs, j) + 1, k)
            /\ k > 0 => (requests[f] = << >>
                            <=> EndsWith(SubSeq(Script(f), 1, k), EOM))
            /\ f \in pending <=> j = 0
            /\ j >= 1 =>
                  /\ f \in DOMAIN connected
                  /\ clients[connected[f]].name = ScriptName(f)
                  /\ clients[connected[f]].topics =
                         IF j >= 2 THEN {ScriptTopic(f)} ELSE {}
                  /\ wire[f] \o clients[connected[f]].message_stream
                         = MSG_OK \o EOM \o Delivered(msgs, j)

\* C8, the case: two scripts read, one to the end, part of its publishes
\* sent on already and part still queued, the other up to the first byte of
\* the EOM of its fourth message
ScriptsReadThrough ==
    /\ fed[FirstFd] = Len(Script(FirstFd))
    /\ requests[FirstFd] = ScriptPartial
    /\ Len(wire[FirstFd]) > Len(MSG_OK \o EOM)
    /\ clients[connected[FirstFd]].message_stream # << >>
    /\ FirstFd + 1 \in connections
    /\ fed[FirstFd + 1] = EndOf(ScriptMessages(FirstFd + 1), 4) - 2
    /\ Len(requests[FirstFd + 1]) = Len(ScriptMessages(FirstFd + 1)[4]) + 1

\* C9 (bounded outbound memory): the outbound buffer of every client,
\* connected or lost, is at most MAX_STREAM_SIZE bytes long.
BoundedOutbound ==
    \A c \in DOMAIN clients : Len(clients[c].message_stream) <= MAX_STREAM_SIZE

\* C9, the case: the first peer's last publish has been read while its own
\* buffer, 2 bytes short of MAX_STREAM_SIZE, had no room for it, and the
\* other subscriber, which has been sent a part of its buffer, took it
OutboundFull ==
    /\ fed[FirstFd] = Len(Concat(WritesA))
    /\ \E c, e \in LiveClients :
           /\ clients[c].name = NameA
           /\ TopicT \in clients[c].topics
           /\ Len(clients[c].message_stream) = MAX_STREAM_SIZE - 2
           /\ clients[e].name = NameB
           /\ Len(clients[e].message_stream) > BUFFER_SIZE
           /\ (MAX_STREAM_SIZE + 4 - Len(clients[e].message_stream))
                  % BUFFER_SIZE = 0

\* C10 (bounded inbound memory): after every read handler the inbound buffer
\* of every open connection is at most MAX_REQUEST_SIZE bytes long.
BoundedInbound ==
    \A f \in DOMAIN requests : Len(requests[f]) <= MAX_REQUEST_SIZE

\* C10, the case: a buffer of exactly MAX_REQUEST_SIZE bytes, which one more
\* read takes over the limit
InboundFull ==
    \E f \in DOMAIN connected : Len(requests[f]) = MAX_REQUEST_SIZE

(***************************************************************************)
(* C11  Session collision                                                  *)
(***************************************************************************)
\* what the peers of the connections other than f were sent is the same in s
\* and in the present state
OthersUntouched(s, f) ==
    \A g \in DOMAIN wire \ {f} : g \in DOMAIN s.wire /\ s.wire[g] = wire[g]

\* C11: when a pending connection sends CONNECT n and n is the name of a
\* connected client, the connection is sent the one frame "ERROR: Name already
\* taken" and nothing else, it is removed, and the clients, the tables of the
\* connected and the lost, the topic index and what the other connections were
\* sent stay as they were, whatever the peer has done to the connection since
\* it wrote the frame.
SessionCollision ==
    crashed \/
    \A f \in pending, n \in DOMAIN connected_names, ord \in TopicOrders :
      \A cond \in Conditions(CONNECT \o SP \o n) :
        LET r == ProcessMessage(Peer(State, f, cond), f, CONNECT \o SP \o n, ord)
        IN  /\ ~r.crashed
            /\ r.wire[f] = wire[f] \o MSG_TAKEN \o EOM
            /\ OthersUntouched(r, f)
            /\ f \notin r.connections \cup r.pending
            /\ f \notin DOMAIN r.connected \cup DOMAIN r.epoll
                            \cup DOMAIN r.requests
            /\ r.clients = clients
            /\ r.connected = connected
            /\ r.connected_names = connected_names
            /\ r.temp_lost = temp_lost
            /\ r.topics = topics
            /\ r.connections = connections \ {f}
            /\ r.pending = pending \ {f}

(***************************************************************************)
(* C12  Peer close                                                         *)
(***************************************************************************)
\* s is the present state without the connection f
ConnectionGone(s, f) ==
    /\ s.connections = connections \ {f}
    /\ s.pending = pending \ {f}
    /\ s.requests = Drop(requests, f)
    /\ s.epoll = Drop(epoll, f)
    /\ s.wire = wire

\* C12: a read of zero bytes on a connection bound to a client moves the client
\* from the connected tables to the lost table, not connected, without
\* descriptor and with the time of the read as the time of its loss, and
\* removes the connection; the client's topics, the topic index, its queued
\* bytes and the other clients stay as they were.  On a pending connection the
\* read removes the connection and nothing else.  The read returns zero
\* bytes on a connection its peer has closed, whether or not the server has
\* sent to it since.
PeerClose ==
    crashed \/
    \A f \in connections, ord \in TopicOrders :
      \A cond \in {"closed", "broken"} :
        LET r == ReceiveRequestChunk(Peer(State, f, cond), f, << >>, ord)
        IN  /\ ~r.crashed
            /\ ConnectionGone(r, f)
            /\ r.topics = topics
            /\ r.last_refresh = last_refresh
            /\ IF f \in DOMAIN connected
               THEN LET c == connected[f]
                        n == clients[c].name
                    IN  /\ r.connected = Drop(connected, f)
                        /\ r.connected_names = Drop(connected_names, n)
                        /\ n \notin DOMAIN temp_lost
                        /\ r.temp_lost = (n :> c) @@ temp_lost
                        /\ r.clients = [clients EXCEPT ![c].connected = FALSE,
                                                       ![c].fileno = 0,
                                                       ![c].lost_time = now]
                        /\ r.clients[c].topics = clients[c].topics
                        /\ r.clients[c].message_stream = clients[c].message_stream
                        /\ \A t \in DOMAIN topics :
                              c \in r.topics[t] <=> c \in topics[t]
               ELSE /\ f \in pending
                    /\ r.clients = clients
                    /\ r.connected = connected
                    /\ r.connected_names = connected_names
                    /\ r.temp_lost = temp_lost

(***************************************************************************)
(* C13  Expired lost session                                               *)
(***************************************************************************)
\* the names that become connected in the step
NewlyConnected == DOMAIN connected_names' \ DOMAIN connected_names

\* after the step the client of name n is a new one: its connection was sent
\* "OK: Conn accepted" alone, it has no topic and no queued bytes, and it is in
\* no topic set, so that no publish is queued for it
FreshAfter(n) ==
    LET c == connected_names'[n]
        f == clients'[c].fileno
    IN  /\ f \in DOMAIN connected' /\ connected'[f] = c
        /\ wire'[f] = MSG_OK \o EOM
        /\ clients'[c].topics = {}
        /\ clients'[c].message_stream = << >>
        /\ clients'[c].lost_time = 0
        /\ \A t \in DOMAIN topics' : c \notin topics'[t]

\* in the step the name n comes back within the clock readings `within` of the
\* loss of its session, which is restored, or later, and then as a new client
BackWithin(n, within) ==
    IF n \in DOMAIN temp_lost
    THEN /\ connected_names'[n] = temp_lost[n]
         /\ (now' - clients[temp_lost[n]].lost_time) \in within
    ELSE FreshAfter(n)

\* C13 (expired lost session): a CONNECT n handled 61 s or more after the loss
\* of the session of n does not restore it: it is answered "OK: Conn accepted"
\* and the client is new, without topics or queued bytes and in no topic set.
\* Sessions are restored only less than 61 s after their loss.
ExpiredSessionIsFresh ==
    [][\A n \in NewlyConnected : BackWithin(n, 0..(Jump + Res - 1))]_vars

(***************************************************************************)
(* C14  Permanent removal leaves no trace                                  *)
(***************************************************************************)
\* every member of every topic set is a Client of the connected or of the
\* lost table
TopicMembersLive ==
    \A t \in DOMAIN topics : topics[t] \subseteq LiveClients \cap DOMAIN clients

\* a CONNECT with a name that neither table holds is accepted as a new client
FreeNamesAccepted ==
    crashed \/
    \A f \in pending, n \in {NameA, NameB}, ord \in TopicOrders :
        n \notin DOMAIN connected_names \cup DOMAIN temp_lost =>
            LET r == ProcessMessage(State, f, CONNECT \o SP \o n, ord)
            IN  /\ ~r.crashed
                /\ r.wire[f] = wire[f] \o MSG_OK \o EOM
                /\ n \in DOMAIN r.connected_names
                /\ r.connected_names[n] \notin DOMAIN clients
                /\ r.clients[r.connected_names[n]] = NewClient(n, f)

\* the step removes the client c for good (DISCONNECT, or the sweep of the
\* lost) and leaves nothing of it
RemovedWithoutTrace(c) ==
    LET client == clients[c]
    IN  /\ client.name \notin DOMAIN connected_names' \cup DOMAIN temp_lost'
        /\ \A t \in DOMAIN topics' : c \notin topics'[t]
        /\ c \notin DOMAIN clients'
        /\ \A f \in DOMAIN connected' : connected'[f] # c
        /\ client.connected =>
              /\ client.fileno \notin connections'
              /\ client.fileno \notin DOMAIN connected'
              /\ client.fileno \notin DOMAIN epoll'

\* C14: a step that removes a client for good, the DISCONNECT of a connected
\* client or the sweep of a lost one, leaves its name in neither the connected
\* nor the lost table, the client in no topic set and, if it was connected, its
\* descriptor in neither the connection nor the connected table; a name in
\* neither table is accepted as a new client; in every state every member of
\* every topic set is a client of the connected or the lost table.
NoTraceOfRemoved ==
    /\ [](TopicMembersLive /\ FreeNamesAccepted)
    /\ [][\A c \in LiveClients \ LiveClients' : RemovedWithoutTrace(c)]_vars

(***************************************************************************)
(* C15  Lossy overflow is per recipient                                    *)
(***************************************************************************)
\* the message would make the client's buffer longer than the cap
WouldOverflow(client, message) ==
    Len(client.message_stream) + Len(message) > MAX_STREAM_SIZE

\* C15: PUBLISH t data leaves the buffer of a subscriber of t that the message
\* would overflow as it is, appends the message to the buffer of every other
\* subscriber of t, whose buffer has room for it, and sends nothing to anyone.
LossyOverflowPerRecipient ==
    crashed \/
    \A f \in DOMAIN connected, t \in DOMAIN topics,
       data \in {DataX, DataX \o DataX \o DataX}, ord \in Orders :
        LET message == t \o SP \o data \o EOM
            s == ProcessMessage(State, f, PUBLISH \o SP \o t \o SP \o data, ord)
        IN  /\ ~s.crashed
            /\ s.wire = wire
            /\ s.connections = connections
            /\ \A r \in topics[t] :
                  s.clients[r].message_stream =
                      IF WouldOverflow(clients[r], message)
                      THEN clients[r].message_stream
                      ELSE clients[r].message_stream \o message

(***************************************************************************)
(* C16  Per-subscriber FIFO                                                *)
(***************************************************************************)
IsSuffix(a, b) ==
    Len(a) <= Len(b) /\ SubSeq(b, Len(b) - Len(a) + 1, Len(b)) = a

RECURSIVE Published(_, _)
\* what the publishes among the first j messages of a script queue for the
\* subscriber of their topic, in the order of the script
Published(msgs, j) ==
    IF j = 0 THEN << >>
    ELSE Published(msgs, j - 1)
             \o (IF IsPrefix(PUBLISH \o SP, msgs[j])
                 THEN SubSeq(msgs[j], Len(PUBLISH) + 2, Len(msgs[j])) \o EOM
                 ELSE << >>)

\* the framed messages accepted so far into the buffer of the client of the
\* peer of descriptor f, one after the other
Accepted(f) ==
    Published(DeliveryMessages(f), Complete(DeliveryMessages(f), fed[f]))

\* what the connection f was sent when it was bound
ReplyOk == MSG_OK \o EOM
ReplyRestored(f) ==
    MSG_RESTORED \o ScriptName(f) \o EOM \o ScriptTopic(f) \o EOM

\* the chunks handed to the socket of f one after the other: what the peer,
\* who takes every chunk whole, was sent after `reply`
HandedAfter(f, reply) == SubSeq(wire[f], Len(reply) + 1, Len(wire[f]))

\* on the first connection of a client the chunks handed to the socket and
\* the bytes still queued are the messages accepted, in their order; on a
\* later one, and while the client is lost, they are the end of them
HandedInOrder ==
    crashed \/
    /\ \A f \in DOMAIN connected :
          LET stream == clients[connected[f]].message_stream
          IN  \/ /\ IsPrefix(ReplyOk, wire[f])
                 /\ HandedAfter(f, ReplyOk) \o stream = Accepted(f)
                 /\ IsPrefix(HandedAfter(f, ReplyOk), Accepted(f))
              \/ /\ IsPrefix(ReplyRestored(f), wire[f])
                 /\ IsSuffix(HandedAfter(f, ReplyRestored(f)) \o stream,
                             Accepted(f))
    /\ \A f \in AllFilenos :
          ScriptName(f) \in DOMAIN temp_lost =>
              IsSuffix(clients[temp_lost[ScriptName(f)]].message_stream,
                       Accepted(f))

\* in a step the buffer of a client grows at its end, or loses bytes from its
\* front, and these are what its socket is handed: the socket takes them, or
\* send() raises on them, the peer being gone, and nothing is handed after
FrontToSocket(c) ==
    LET old == clients[c].message_stream
        new == clients'[c].message_stream
        f == clients[c].fileno
    IN  \/ IsPrefix(old, new)
        \/ /\ IsSuffix(new, old)
           /\ f \in DOMAIN connected /\ connected[f] = c
           /\ Len(old) - Len(new) <= BUFFER_SIZE
           /\ IF crashed' THEN wire' = wire
              ELSE /\ f \in DOMAIN wire'
                   /\ wire'[f] = wire[f] \o SubSeq(old, 1, Len(old) - Len(new))

\* C16: for every client the chunks handed to its socket by the successive
\* writable events, one after the other, are a prefix of the framed messages
\* accepted into its buffer, in the order they were queued: bytes leave the
\* buffer from its front to the socket, and join it at its end.
FifoDelivery ==
    /\ []HandedInOrder
    /\ [][\A c \in DOMAIN clients \cap DOMAIN clients' : FrontToSocket(c)]_vars

\* a restored client has been handed, on its new connection, the second
\* chunk of the long message and the short one that followed, and the message
\* published last is queued
SecondChunkAfterRestore ==
    \E f \in DOMAIN connected :
        /\ IsPrefix(ReplyRestored(f), wire[f])
        /\ Len(HandedAfter(f, ReplyRestored(f))) > 0
        /\ Len(HandedAfter(f, ReplyRestored(f))) < BUFFER_SIZE
        /\ clients[connected[f]].message_stream # << >>
        /\ fed[f] = Len(Concat(DeliveryWrites(f)))

(***************************************************************************)
(* C17  Partial writes                                                     *)
(***************************************************************************)
\* C17: when a writable event takes bytes from the buffer of the client of a
\* connection, the socket accepting k bytes of the chunk it is offered, exactly
\* these k bytes leave the buffer, the rest stays at its front, and the
\* connection stays armed for writing while bytes are queued.
PartialWriteKeepsRest ==
    [][\A f \in DOMAIN connected \cap DOMAIN connected' :
          LET old == clients[connected[f]].message_stream
              new == clients'[connected'[f]].message_stream
              k == Len(wire'[f]) - Len(wire[f])
          IN  (connected'[f] = connected[f] /\ Len(new) < Len(old)) =>
                  /\ wire'[f] = wire[f] \o SubSeq(old, 1, k)
                  /\ new = SubSeq(old, k + 1, Len(old))
                  /\ new # << >> => "OUT" \in epoll'[f]]_vars

(***************************************************************************)
(* C18  Idempotence of SUBSCRIBE and UNSUBSCRIBE                           *)
(***************************************************************************)
\* b'v': a topic no peer of the runs names
TopicV == << 118 >>

\* the topic index of s holds the client c under t
Indexed(s, c, t) == t \in DOMAIN s.topics /\ c \in s.topics[t]

\* C18: for every connected client c and topic t, SUBSCRIBE t leaves c
\* subscribed to t and in the set of t, and SUBSCRIBE t once more changes
\* nothing; UNSUBSCRIBE t leaves c neither subscribed to t nor in its set, and
\* UNSUBSCRIBE t once more changes nothing; UNSUBSCRIBE of a topic c does not
\* hold, in the index or not, changes nothing.
Idempotence ==
    crashed \/
    \A f \in DOMAIN connected, t \in Topics \cup {TopicV}, ord \in Orders :
        LET c == connected[f]
            sub == ProcessMessage(State, f, SUBSCRIBE \o SP \o t, ord)
            subsub == ProcessMessage(sub, f, SUBSCRIBE \o SP \o t, ord)
            uns == ProcessMessage(State, f, UNSUBSCRIBE \o SP \o t, ord)
            unsuns == ProcessMessage(uns, f, UNSUBSCRIBE \o SP \o t, ord)
        IN  /\ ~sub.crashed /\ ~uns.crashed
            /\ t \in sub.clients[c].topics /\ Indexed(sub, c, t)
            /\ subsub = sub
            /\ t \notin uns.clients[c].topics /\ ~Indexed(uns, c, t)
            /\ unsuns = uns
            /\ t \in clients[c].topics => sub = State
            /\ t \notin clients[c].topics => uns = State

\* a connected client is subscribed to a topic that another client holds too,
\* and not to a second one that is in the index; a third is not in the index
SubscribedAndNot ==
    /\ ~crashed
    /\ \E f \in DOMAIN connected :
          /\ TopicT \in clients[connected[f]].topics
          /\ TopicU \notin clients[connected[f]].topics
          /\ TopicU \in DOMAIN topics
          /\ Cardinality(topics[TopicT]) > 1
    /\ TopicV \notin DOMAIN topics

(***************************************************************************)
(* C19  Connection state partition                                         *)
(***************************************************************************)
\* C19: between the handlers every descriptor of the connection table is in
\* the pending table or in the connected table and not in both, these two hold
\* no other descriptor, and every open connection has a request buffer (and
\* no closed one has).
ConnectionPartition ==
    crashed \/
    /\ pending \cap DOMAIN connected = {}
    /\ pending \cup DOMAIN connected = connections
    /\ DOMAIN requests = connections

\* a pending connection and a bound one are open, a lost client has none, and
\* a descriptor that was closed has been given to a new connection
PendingBoundAndLost ==
    /\ ~crashed
    /\ pending # {}
    /\ DOMAIN connected # {}
    /\ DOMAIN temp_lost # {}
    /\ Cardinality(DOMAIN clients) > 1
    /\ connections = AllFilenos

(***************************************************************************)
(* C20  Sweep rate                                                         *)
(***************************************************************************)
\* C20: the sweep of the lost clients, which sets last_refresh to the clock
\* reading it runs at, runs at the end of a tick only if a client is lost and
\* a second or more has passed since the sweep before it: two sweeps are never
\* less than a second apart.  (last_refresh is 0, the reading at the start,
\* until the first sweep.)
SweepRate ==
    [][last_refresh' # last_refresh =>
          /\ last_refresh' = now'
          /\ last_refresh > 0 => last_refresh' - last_refresh >= Res]_vars

(***************************************************************************)
(* C21  Client name bounds                                                 *)
(***************************************************************************)
\* C21: in every state every Client record of the connected and of the lost
\* table has a name that is not empty and at most MAX_NAME_LEN (64)
\* characters long, whatever name the CONNECT frame carried.
NameBounds ==
    \A c \in LiveClients :
        /\ Len(clients[c].name) >= 1
        /\ Len(clients[c].name) <= MAX_NAME_LEN

(***************************************************************************)
(* C22  Protocol violations on a connected session                         *)
(***************************************************************************)
\* messages a connected session is not to send: unknown commands, CONNECT,
\* and PUBLISH, SUBSCRIBE, UNSUBSCRIBE without a topic or with an empty one
Violations ==
    { FOO,
      FOO \o SP \o TopicT \o SP \o DataX,
      << 112, 117, 98, 108, 105, 115, 104 >> \o SP \o TopicT \o SP \o DataX,
      CONNECT, CONNECT \o SP, CONNECT \o SP \o NameA, CONNECT \o SP \o NameB,
      PUBLISH, PUBLISH \o SP, PUBLISH \o SP \o SP \o DataX,
      SUBSCRIBE, SUBSCRIBE \o SP, SUBSCRIBE \o SP \o SP \o TopicT,
      UNSUBSCRIBE, UNSUBSCRIBE \o SP, UNSUBSCRIBE \o SP \o SP \o TopicT }

\* C22: an unknown command, a CONNECT, or a PUBLISH, SUBSCRIBE or UNSUBSCRIBE
\* with an empty topic, from a bound connection, changes nothing: the
\* connection stays open, the tables, the topic index, the topics and the
\* buffers of the clients are as they were, and nothing is sent.
ViolationsIgnored ==
    crashed \/
    \A f \in DOMAIN connected, msg \in Violations, ord \in TopicOrders :
        ProcessMessage(State, f, msg, ord) = State

\* a bound connection of a client with a topic and queued bytes, while the
\* other name is connected or lost and so can be taken or restored
BoundWithTopicsAndQueue ==
    /\ ~crashed
    /\ \E f \in DOMAIN connected :
          /\ clients[connected[f]].topics # {}
          /\ clients[connected[f]].message_stream # << >>
          /\ clients[connected[f]].name = NameA
    /\ NameB \in DOMAIN connected_names \cup DOMAIN temp_lost

(***************************************************************************)
(* C23  Write interest                                                     *)
(***************************************************************************)
\* C23: between two handlers, the descriptor of a connected client is in the
\* output pool (registered for writing) exactly when the outbound buffer of
\* that client is not empty.
WriteInterest ==
    crashed \/
    \A f \in DOMAIN connected :
        (epoll[f] = EPOLLINOUT) <=> (clients[connected[f]].message_stream # << >>)


\* a client restored with queued bytes has been handed all of them on its new
\* connection, which is back to reading only, before anything more is published
DrainedAfterRestore ==
    /\ ~crashed
    /\ \E f \in DOMAIN connected :
          /\ IsPrefix(ReplyRestored(f), wire[f])
          /\ Len(HandedAfter(f, ReplyRestored(f))) > 0
          /\ clients[connected[f]].message_stream = << >>
          /\ epoll[f] = EPOLLIN
          /\ fed[f] < Len(Concat(DeliveryWrites(f)))


(***************************************************************************)
(* C24  Enqueue boundary                                                   *)
(***************************************************************************)
\* C24: add_message of a message of m bytes on a buffer of L bytes appends the
\* message, and returns L + m, whenever L + m <= MAX_STREAM_SIZE, L + m =
\* MAX_STREAM_SIZE included; it leaves the buffer alone, and returns L, only
\* when L + m > MAX_STREAM_SIZE.
EnqueueBoundary ==
    \A c \in LiveClients, data \in {DataX, DataX \o DataX \o DataX} :
        LET message == TopicT \o SP \o data \o EOM
            before == clients[c].message_stream
            after == AddMessage(clients[c], message)
        IN  IF Len(before) + Len(message) <= MAX_STREAM_SIZE
            THEN /\ after.message_stream = before \o message
                 /\ MessageStreamSize(after) = Len(before) + Len(message)
            ELSE /\ after.message_stream = before
                 /\ MessageStreamSize(after) = Len(before)


(***************************************************************************)
(* C25  Inbound overflow                                                   *)
(***************************************************************************)
\* reads that may take a request buffer over MAX_REQUEST_SIZE: bytes without
\* an EOM, the end of a message, and the end of a message followed by a
\* complete SUBSCRIBE
OverflowChunks ==
    { Filler(BUFFER_SIZE),
      Filler(5) \o EOM,
      Filler(5) \o EOM \o Frame(SUBSCRIBE \o SP \o TopicU),
      EOM \o Frame(SUBSCRIBE \o SP \o TopicU) }

\* C25: when a read makes the request buffer of a bound connection longer
\* than MAX_REQUEST_SIZE, the buffer is emptied and only the message that was
\* not complete is lost: the state afterwards is the one reached by processing
\* the complete messages of the read (with or without the message the read
\* completed, which is the one that grew too long), the connection is bound to
\* the same client, and without a complete message nothing but the buffer
\* changes.
OverflowLosesPartialOnly ==
    crashed \/
    \A f \in DOMAIN connected, chunk \in OverflowChunks, ord \in TopicOrders :
        LET request == requests[f] \o chunk
            r == ReceiveRequestChunk(State, f, chunk, ord)
            emptied == [State EXCEPT !.requests[f] = << >>]
            messages == IF Contains(request, EOM) THEN Frames(request).messages
                        ELSE << >>
        IN  Len(request) > MAX_REQUEST_SIZE =>
               /\ r.requests[f] = << >>
               /\ f \in DOMAIN r.connected /\ r.connected[f] = connected[f]
               /\ \/ r = ProcessAll(emptied, f, messages, ord)
                  \/ messages # << >>
                       /\ r = ProcessAll(emptied, f, Tail(messages), ord)


(***************************************************************************)
(* C26  Publish touches subscribers only                                   *)
(***************************************************************************)
\* the clients in the set of a topic
SubscribersOf(t) == IF t \in DOMAIN topics THEN topics[t] ELSE {}

\* C26: PUBLISH t data from a bound connection leaves the buffer and the
\* write interest of every client that is not in the set of t as they were,
\* the publisher among them unless it subscribed to t, sends nothing to
\* anyone, and changes no topic set of a client, no entry of the topic index,
\* no connection and no table of names.
SubscribersOnly ==
    crashed \/
    \A f \in DOMAIN connected, t \in Topics, ord \in TopicOrders :
        LET r == ProcessMessage(State, f, PUBLISH \o SP \o t \o SP \o DataX, ord)
        IN  /\ ~r.crashed
            /\ r.wire = wire
            /\ DOMAIN r.clients = DOMAIN clients
            /\ \A c \in DOMAIN clients :
                  /\ c \notin SubscribersOf(t) => r.clients[c] = clients[c]
                  /\ [r.clients[c] EXCEPT !.message_stream = << >>]
                        = [clients[c] EXCEPT !.message_stream = << >>]
            /\ DOMAIN r.epoll = DOMAIN epoll
            /\ \A g \in DOMAIN epoll :
                  (g \notin DOMAIN connected \/ connected[g] \notin SubscribersOf(t))
                      => r.epoll[g] = epoll[g]
            /\ r.topics = topics
            /\ r.connections = connections
            /\ r.pending = pending
            /\ r.requests = requests
            /\ r.connected = connected
            /\ r.connected_names = connected_names
            /\ r.temp_lost = temp_lost

\* a client that is not subscribed to b't' has published on it: the
\* subscriber holds the message and is in the output pool, the publisher holds
\* nothing and is not
PublishedToOther ==
    /\ ~crashed
    /\ \E f, g \in DOMAIN connected :
          /\ connected[f] \notin SubscribersOf(TopicT)
          /\ connected[g] \in SubscribersOf(TopicT)
          /\ clients[connected[g]].message_stream = TopicT \o SP \o DataX \o EOM
          /\ epoll[g] = EPOLLINOUT
          /\ clients[connected[f]].message_stream = << >>
          /\ epoll[f] = EPOLLIN


(***************************************************************************)
(* C27  Sweep exactness                                                    *)
(***************************************************************************)
\* the readings of the clock a sweep is tried at: the present one and, for
\* each lost client, the readings around the end of its lost window
SweepReadings ==
    {now} \cup
    {at \in {clients[temp_lost[n]].lost_time + Jump + d :
                n \in DOMAIN temp_lost, d \in {0 - 1, 0, 1, Jump}} : at >= now}

\* the topics whose set holds the client
MemberOf(s, c) == {t \in DOMAIN s.topics : c \in s.topics[t]}

\* C27: the sweep run at a reading of the clock removes exactly the lost
\* clients lost for more than LOST_TIMEOUT at that reading; a client lost for
\* LOST_TIMEOUT or less stays in the lost table with its topics, its
\* memberships in the topic index and its buffer, and the connected clients,
\* their tables and their connections stay as they were.
SweepExactness ==
    crashed \/
    \A at \in SweepReadings :
        LET r == ClientsRemoveDead(State, at)
            dead == {n \in DOMAIN temp_lost :
                        at - clients[temp_lost[n]].lost_time > LOST_TIMEOUT * Res}
        IN  /\ ~r.crashed
            /\ DOMAIN r.temp_lost = DOMAIN temp_lost \ dead
            /\ \A n \in dead :
                  /\ temp_lost[n] \notin DOMAIN r.clients
                  /\ MemberOf(r, temp_lost[n]) = {}
            /\ \A n \in DOMAIN temp_lost \ dead :
                  /\ r.temp_lost[n] = temp_lost[n]
                  /\ r.clients[temp_lost[n]] = clients[temp_lost[n]]
                  /\ MemberOf(r, temp_lost[n]) = MemberOf(State, temp_lost[n])
            /\ r.connected = connected
            /\ r.connected_names = connected_names
            /\ \A f \in DOMAIN connected :
                  /\ r.clients[connected[f]] = clients[connected[f]]
                  /\ MemberOf(r, connected[f]) = MemberOf(State, connected[f])
            /\ r.connections = connections
            /\ r.pending = pending
            /\ r.requests = requests
            /\ r.epoll = epoll
            /\ r.wire = wire

\* two clients with a topic are lost, one a reading of the clock after the
\* other, the later one with queued bytes: a sweep LOST_TIMEOUT after the
\* later loss finds the first dead and the second at the timeout exactly
LostOneReadingApart ==
    /\ ~crashed
    /\ \E n, m \in DOMAIN temp_lost :
          /\ clients[temp_lost[m]].lost_time = clients[temp_lost[n]].lost_time + 1
          /\ clients[temp_lost[n]].topics # {}
          /\ clients[temp_lost[m]].topics # {}
          /\ clients[temp_lost[m]].message_stream # << >>
          /\ clients[temp_lost[m]].lost_time + Jump \in SweepReadings

(***************************************************************************)
(* C28  Client substate consistency                                        *)
(***************************************************************************)
\* the Client records of the connected table and of the lost table
ConnectedClients == {connected[f] : f \in DOMAIN connected}
LostClients == {temp_lost[n] : n \in DOMAIN temp_lost}

\* C28: between the handlers every Client is in the connected table or in
\* the lost table and not in both; the connected table by descriptor and the
\* one by name hold the same records, each under its descriptor and its name;
\* a Client is connected exactly when its flag is set and its fileno is the
\* descriptor of an open connection bound to it; a lost Client has the flag
\* cleared and fileno 0; no two Clients have the same descriptor.
SubstateConsistency ==
    crashed \/
    /\ DOMAIN clients = ConnectedClients \cup LostClients
    /\ ConnectedClients \cap LostClients = {}
    /\ {connected_names[n] : n \in DOMAIN connected_names} = ConnectedClients
    /\ \A n \in DOMAIN connected_names : clients[connected_names[n]].name = n
    /\ \A n \in DOMAIN temp_lost : clients[temp_lost[n]].name = n
    /\ \A f \in DOMAIN connected : clients[connected[f]].fileno = f
    /\ \A c \in DOMAIN clients :
          c \in ConnectedClients <=>
              /\ clients[c].connected
              /\ clients[c].fileno \in connections \ pending
              /\ clients[c].fileno \in DOMAIN connected
              /\ connected[clients[c].fileno] = c
    /\ \A c \in LostClients :
          /\ ~clients[c].connected
          /\ clients[c].fileno = 0
          /\ clients[c].fileno \notin connections
    /\ \A c, e \in ConnectedClients :
          clients[c].fileno = clients[e].fileno => c = e

\* a client that was lost and restored is bound to a connection while the
\* client of the other name is lost
RestoredBesideLost ==
    /\ ~crashed
    /\ DOMAIN temp_lost # {}
    /\ \E f \in DOMAIN connected :
          /\ clients[connected[f]].lost_time > 0
          /\ clients[connected[f]].topics # {}


(***************************************************************************)
(* C29  Publishes during the lost window                                   *)
(***************************************************************************)
\* C29 (publishes during the lost window are retained): PUBLISH t data from a
\* bound connection g, while a subscriber c of t is lost, appends the framed
\* message to the buffer of c whenever the two do not exceed MAX_STREAM_SIZE,
\* leaves the buffer alone when they do, and arms write interest on no
\* descriptor but those of the connected subscribers of t; when a pending
\* connection f then sends CONNECT with the name of c, it is bound to c with
\* write interest armed, and a writable event on it hands the socket the head
\* of the buffer, so that the connection is sent the two RESTORED frames and
\* then the queued bytes.
RetainedWhileLost ==
    crashed \/
    \A n \in DOMAIN temp_lost, g \in DOMAIN connected, f \in pending,
       ord \in TopicOrders, data \in {DataX, DataX \o DataX \o DataX} :
        \A t \in clients[temp_lost[n]].topics :
            LET c == temp_lost[n]
                message == t \o SP \o data \o EOM
                before == clients[c].message_stream
                total == Len(before) + Len(message)
                replies == MSG_RESTORED \o n \o EOM
                               \o JoinTopics(clients[c].topics, ord) \o EOM
                s1 == ProcessMessage(State, g, PUBLISH \o SP \o t \o SP \o data, ord)
                queued == s1.clients[c].message_stream
                chunk == SubSeq(queued, 1, Min({Len(queued), BUFFER_SIZE}))
                s2 == ProcessMessage(s1, f, CONNECT \o SP \o n, ord)
                s3 == SendMessageChunk(s2, f, Len(chunk))
            IN  /\ ~s1.crashed
                /\ total <= MAX_STREAM_SIZE => queued = before \o message
                /\ total > MAX_STREAM_SIZE => queued = before
                /\ s1.temp_lost = temp_lost
                /\ s1.wire = wire
                /\ \A h \in DOMAIN epoll :
                      s1.epoll[h] # epoll[h] =>
                          /\ h \in DOMAIN connected
                          /\ connected[h] \in topics[t]
                /\ ~s2.crashed
                /\ f \in DOMAIN s2.connected /\ s2.connected[f] = c
                /\ s2.clients[c].message_stream = queued
                /\ queued # << >> => s2.epoll[f] = EPOLLINOUT
                /\ s2.wire[f] = wire[f] \o replies
                /\ ~s3.crashed
                /\ s3.wire[f] = wire[f] \o replies \o chunk
                /\ s3.clients[c].message_stream
                      = SubSeq(queued, Len(chunk) + 1, Len(queued))

(***************************************************************************)
(* C30  Lost sessions do not linger                                        *)
(***************************************************************************)
\* C30: while the loop keeps ticking (no exception has left it) and the clock
\* advances, a client that is in the lost table leaves it, restored by a
\* CONNECT with its name or removed by the sweep: no client stays lost for
\* ever.
LostLeave ==
    \A n \in {NameA, NameB} :
        (n \in DOMAIN temp_lost) ~> (n \notin DOMAIN temp_lost \/ crashed)

\* the clock has passed a lost window, which it does only while a client is
\* lost; a client that was lost and restored is bound, the client of the other
\* name is gone and the lost table is empty
RestoredAndSwept ==
    /\ ~crashed
    /\ now > Jump
    /\ temp_lost = << >>
    /\ \E f \in DOMAIN connected :
          /\ clients[connected[f]].lost_time > 0
          /\ DOMAIN clients = {connected[f]}


(***************************************************************************)
(* C31  Eventual delivery                                                  *)
(***************************************************************************)
\* C31: when the buffer of the client of a connection is not empty and the
\* connection stays open, and the loop goes on serving the descriptor (no
\* exception leaves it), the buffer is drained in the end, whatever the peer
\* of that connection writes and even if it writes on every iteration.
EventualDelivery ==
    \A f \in Filenos(Busy) :
        (f \in DOMAIN connected /\ clients[connected[f]].message_stream # << >>)
            ~> (\/ crashed
                \/ f \notin DOMAIN connected
                \/ clients[connected[f]].message_stream = << >>)


(***************************************************************************)
(* C32  Frame-aligned delivery                                             *)
(***************************************************************************)
\* all the framed messages the script of the peer of f has published to its
\* client, and the places in them where a frame starts
AllPublished(f) == Published(DeliveryMessages(f), Len(DeliveryMessages(f)))
FrameStarts(f) ==
    {Len(Published(DeliveryMessages(f), j)) : j \in 0..Len(DeliveryMessages(f))}

\* C32: on every connection what the server has sent after the reply to
\* CONNECT (OK, or the two RESTORED frames) is a run of whole frames
\* <topic> <data> EOM, cut short at its end at most: it starts where a frame
\* starts, also on the connection of a client that was lost with a part of a
\* frame sent and then restored.
FrameAligned ==
    crashed \/
    \A f \in DOMAIN connected :
        LET reply == IF IsPrefix(ReplyRestored(f), wire[f])
                     THEN ReplyRestored(f) ELSE ReplyOk
            sent == HandedAfter(f, reply)
            all == AllPublished(f)
        IN  /\ IsPrefix(reply, wire[f])
            /\ \E k \in FrameStarts(f) :
                  IsPrefix(sent, SubSeq(all, k + 1, Len(all)))


(***************************************************************************)
(* C33  Publish payload                                                    *)
(***************************************************************************)
\* what may follow the second space of a PUBLISH frame: nothing, a word, and
\* words with spaces between, before and after them
Payloads ==
    { << >>,
      DataX,
      SP,
      DataX \o SP \o DataX,
      DataX \o SP \o SP \o DataX,
      SP \o DataX,
      DataX \o SP,
      SP \o SP \o DataX \o SP \o DataX \o SP \o SP }

\* the buffer of every subscriber of t with room for the message holds the
\* message at its end in s, and the other buffers are as they were
Enqueued(s, t, message) ==
    /\ ~s.crashed
    /\ DOMAIN s.clients = DOMAIN clients
    /\ \A c \in DOMAIN clients :
          s.clients[c].message_stream =
              IF c \in topics[t]
                 /\ Len(clients[c].message_stream) + Len(message) < MAX_STREAM_SIZE
              THEN clients[c].message_stream \o message
              ELSE clients[c].message_stream

\* C33: for the frame PUBLISH <topic> <rest>, the topic being the text between
\* the first and the second space, the message queued to the subscribers is
\* <topic>, one space, <rest> and EOM, <rest> being all that follows the second
\* space with every space in it; for the frame PUBLISH <topic>, without a
\* second space, <rest> is empty.
PayloadIsRemainder ==
    crashed \/
    \A f \in DOMAIN connected, t \in DOMAIN topics, ord \in TopicOrders :
        /\ \A rest \in Payloads :
              Enqueued(ProcessMessage(State, f,
                                      PUBLISH \o SP \o t \o SP \o rest, ord),
                       t, t \o SP \o rest \o EOM)
        /\ Enqueued(ProcessMessage(State, f, PUBLISH \o SP \o t, ord),
                    t, t \o SP \o EOM)

\* the two clients are subscribed to b't', one of them lost, and the
\* connected one holds a message published on it
TwoSubscribersOneLost ==
    /\ ~crashed
    /\ TopicT \in DOMAIN topics
    /\ \E c, e \in topics[TopicT] :
          /\ clients[c].connected
          /\ clients[c].message_stream = TopicT \o SP \o DataX \o EOM
          /\ ~clients[e].connected

====
